---- MODULE Spec2Model ----
(***************************************************************************)
(* s3copy: the bounded worker pool (runWorkerPool, runWorkerPoolStream),   *)
(* the one-way directory sync (syncLocalToS3, syncS3ToLocal), the          *)
(* single-object download (downloadFileWithParams), the chunked            *)
(* encryption (encryptStream, decryptStreamFromReader) and the encrypted   *)
(* upload through a pipe (uploadFileWithParams).                           *)
(***************************************************************************)
EXTENDS Integers, Sequences, FiniteSets, TLC

\* ------------------------------------------------------------------------
\* Bounds of the model
\* ------------------------------------------------------------------------
MaxTasks == 3
MaxWorkers == 2
NumPaths == 3      \* relative paths of a tree
SyncPaths == 2     \* relative paths that hold files when a sync starts
OldTime == 1       \* modification time of the files that exist before the sync

\* Program constants
DefaultWorkerPoolBufferMultiplier == 2

VARIABLES
    \* ---- worker pool ----
    mode,        \* "fixed" (runWorkerPool) or "stream" (runWorkerPoolStream)
    ntasks,      \* len(tasks), or the number of tasks the producer yields
    maxWorkers,  \* the maxWorkers argument
    callerCtx,   \* ctx.Err() of the caller's context: "nil", "Canceled", "DeadlineExceeded"
    cancelCause, \* why workerCtx is done: "none", "failure" (cancel() called), "caller"
    taskChan,    \* buffered channel of tasks
    chanClosed,  \* close(taskChan) happened
    errChan,     \* buffered channel of errors
    wpc,         \* per worker goroutine: "none", "select", "running", "capture", "exited"
    wtask,       \* per worker goroutine: the task it is executing (0: none)
    sent,        \* number of tasks the send loop / producer has enqueued
    ppc,         \* send loop / producer: "idle", "send", "capture", "done"
    mpc,         \* the executor call itself: "start", "wait", "done"
    result,      \* the error the executor returned
    runs,        \* history: how many times the worker was called for each task
    failOrder,   \* history: the errors offered to errChan, in order
    lateStart,   \* history: tasks whose execution began after cancel() by a failure
    lateSent,    \* history: tasks enqueued after cancel() by a failure
    inflight,    \* history: tasks whose worker call was executing when workerCtx became done
    \* ---- sync ----
    direction,   \* "up": local source, S3 destination; "down": S3 source, local destination
    syncCompare, \* the syncCompare flag: "checksum" or "size-time"
    encrypt,     \* the encrypt flag
    dryRun,      \* the dryRun flag
    ignored,     \* relative paths matched by the ignore patterns
    localFS,     \* local directory: relative path -> file
    remoteFS,    \* objects under the S3 prefix: relative path -> object
    spc,         \* the sync call: "start", "planned", "transfer", "delete", "done"
    syncRun,     \* 1: first sync call, 2: the sync call that follows it
    toTransfer,  \* toUpload / toDownload
    toDelete,    \* toDelete
    verdict,     \* per path: what the comparison of the two sides returned
    pending,     \* transfer tasks not yet handed to a worker
    pendingDel,  \* files of toDelete the delete loop has not reached yet
    uploaded,    \* SyncResult.Uploaded, as a bag of relative paths
    downloaded,  \* SyncResult.Downloaded
    deleted,     \* SyncResult.Deleted
    errors,      \* SyncResult.Errors, as a bag of the relative paths they are about
    syncErr,     \* the error the sync call returned
    mutations,   \* history: the mutating calls made on the filesystem and on the bucket
    silentFault  \* history: a failure the code only logs happened (HeadObject, Chtimes)

syncVars == <<direction, syncCompare, encrypt, dryRun, ignored, localFS, remoteFS, spc,
              syncRun, toTransfer, toDelete, verdict, pending, pendingDel, uploaded,
              downloaded, deleted, errors, syncErr, mutations, silentFault>>

\* one call of downloadFileWithParams: its position, its two temporary files, its
\* result, the file that was at the local path before, and its two switches
VARIABLES dpc, dlTemp, dlDec, dlErr, dlOrig, checkSkipExisting, forceOverwrite

dlVars == <<dpc, dlTemp, dlDec, dlErr, dlOrig, checkSkipExisting, forceOverwrite>>

\* one encryptStream call followed by one decryptStreamFromReader call
VARIABLES
    password,     \* the passphrase both calls use
    plain,        \* the bytes encryptStream reads
    cpc,          \* "idle", "encrypt", "sealed", "header", "chunks", "done"
    encPos,       \* how many bytes of plain encryptStream has read
    container,    \* the bytes encryptStream wrote, then the bytes the decryption reads
    tamperAt,     \* history: the position of the byte that was changed (0: none)
    decPos,       \* how many bytes of container the decryption has read
    nonceCounter, \* NonceManager.counter of the running call
    output,       \* the bytes the decryption wrote
    decErr,       \* the error decryptStreamFromReader returned
    decPassword,  \* the global password when decryptStreamFromReader is called
    fault,        \* history: what happened to the container between the two calls
    encErr,       \* the error encryptStream returned
    encNonces,    \* history: the nonces NextNonce returned to encryptStream
    decNonces,    \* history: the nonces NextNonce returned to the decryption
    order         \* history: for each chunk record of a rearranged container, which
                  \* record of the written container it is (<<>>: not rearranged)

cryptoVars == <<password, plain, cpc, encPos, container, tamperAt, decPos, nonceCounter,
                output, decErr, decPassword, fault, encErr, encNonces, decNonces, order>>

\* one encrypted upload: uploadFileWithParams, its encryption goroutine and the pipe
VARIABLES
    upTotal,       \* the number of Writes a complete encryptStream makes on the pipe
    upPc,          \* the caller: "idle", "upload", "closeErr", "closeOk", "waitErr", "waitOk", "done"
    encPc,         \* the goroutine: "idle", "encrypt", "writing", "send", "close", "exited"
    encWritten,    \* the Writes on the pipe that returned without error
    pipePending,   \* a Write is blocked in the pipe, offering its bytes
    pipeWriter,    \* "open" or "closed" (Close: the reader sees io.EOF)
    pipeReader,    \* "open", "closed" or "closedWithError"
    upReceived,    \* the Writes whose bytes UploadObject has read
    encResult,     \* what encryptStream returned: "none", "nil", "read error", "write error"
    upErrChan,     \* errChan, buffered with capacity 1
    uploadErr,     \* what UploadObject returned: "none", "nil", "upload error"
    upReturn,      \* what uploadFileWithParams returned
    keyHolds       \* the destination key: "old", "complete" or "incomplete"

upVars == <<upTotal, upPc, encPc, encWritten, pipePending, pipeWriter, pipeReader, upReceived,
            encResult, upErrChan, uploadErr, upReturn, keyHolds>>

\* one retryOperation call
VARIABLES
    retryMax,      \* the maxAttempts argument
    retryPc,       \* "idle", "loop" or "done"
    retryAttempts, \* history: what each call of operation() returned, in order
    retryResult    \* what retryOperation returned

retryVars == <<retryMax, retryPc, retryAttempts, retryResult>>

\* one recursive copy: uploadDirectory, or downloadFromS3 over a prefix
VARIABLES
    dcKind,        \* "idle", "upload" (uploadDirectory) or "download" (downloadFromS3)
    dcDryRun,      \* the dryRun flag
    dcListed,      \* the files the walk / the objects the listing yields
    dcDirs,        \* the local directories that exist
    dcDirs0,       \* history: the local directories that existed at the call
    dcStored,      \* the files (download) or objects (upload) the copy has written
    dcPending,     \* listed tasks no worker has taken
    dcRunning,     \* tasks whose closure is executing
    dcAttempted,   \* history: tasks whose closure has returned
    dcReturned,    \* history: what the closure returned for each task
    dcCancelled,   \* cancel() was called on the workers' context
    dcCaptured,    \* the first error offered to errChan
    dcPc,          \* "idle", "start", "pool" or "done"
    dcErr          \* what the call returned

dcVars == <<dcKind, dcDryRun, dcListed, dcDirs, dcDirs0, dcStored, dcPending, dcRunning,
            dcAttempted, dcReturned, dcCancelled, dcCaptured, dcPc, dcErr>>

\* the SyncResult of one sync call and the goroutines that append to it
VARIABLES
    rpDir,         \* "idle", "up" (uploadFiles, deleteS3Files) or "down"
    rpPending,     \* transfer tasks no worker has taken
    rpDelPending,  \* files of toDelete the delete loop has not reached
    rpPc,          \* per goroutine: "wait", "take", "lock", "read", "write", "unlock",
                   \*                "loop", "exited", "done"
    rpEntry,       \* per goroutine: the list it appends to and the path it appends
    rpSlice,       \* per goroutine: the slice append() has read
    rpMutex,       \* the goroutine that holds the mutex (-1: nobody)
    rpLists,       \* SyncResult: Uploaded, Downloaded, Deleted, Errors
    rpAppends      \* history: the appends that have returned

rpVars == <<rpDir, rpPending, rpDelPending, rpPc, rpEntry, rpSlice, rpMutex, rpLists,
            rpAppends>>

\* the S3 client singleton and the goroutines that call getS3Client
VARIABLES
    clPc,          \* per caller: "idle", "lock", "check", "unlock", "done"
    clGot,         \* per caller: the client its latest call returned since the last
                   \* reset (0: none, -1: an error)
    clMutex,       \* the caller that holds s3ClientMutex (-1: nobody, 0: resetS3Client)
    clInstance,    \* s3ClientInstance (0: nil)
    clBuilt,       \* history: clients constructed since the last reset
    clTotal,       \* history: clients constructed at all; names the next client
    clResets       \* history: resetS3Client calls

clVars == <<clPc, clGot, clMutex, clInstance, clBuilt, clTotal, clResets>>

auxVars == <<retryVars, dcVars, rpVars, clVars>>

poolVars == <<mode, ntasks, maxWorkers, callerCtx, cancelCause, taskChan, chanClosed,
              errChan, wpc, wtask, sent, ppc, mpc, result, runs, failOrder,
              lateStart, lateSent, inflight>>

\* the worker pool's own state, without the maxWorkers flag and the caller's context
poolOnly == <<mode, ntasks, cancelCause, taskChan, chanClosed, errChan, wpc, wtask, sent,
              ppc, mpc, result, runs, failOrder, lateStart, lateSent, inflight>>

vars == <<poolVars, syncVars, dlVars, cryptoVars, upVars, auxVars>>

\* ------------------------------------------------------------------------
\* Errors
\* ------------------------------------------------------------------------
NilErr == [kind |-> "nil", id |-> 0]
CanceledErr == [kind |-> "Canceled", id |-> 0]
DeadlineErr == [kind |-> "DeadlineExceeded", id |-> 0]
ConfigErr == [kind |-> "config", id |-> 0]
ProducerErr == [kind |-> "producer", id |-> 0]
TaskErr(t) == [kind |-> "task", id |-> t]

CtxErr(c) == IF c = "Canceled" THEN CanceledErr
             ELSE IF c = "DeadlineExceeded" THEN DeadlineErr
             ELSE NilErr

\* errors.Is(err, context.Canceled)
IsCanceled(err) == err.kind = "Canceled"

\* workerCtx.Err(): workerCtx is a cancel-child of the caller's context
WorkerCtxErr == IF cancelCause = "failure" THEN CanceledErr
                ELSE IF cancelCause = "caller" THEN CtxErr(callerCtx)
                ELSE NilErr

WorkerCtxDone == WorkerCtxErr # NilErr

Min(a, b) == IF a < b THEN a ELSE b

WorkerIds == 1..MaxWorkers
TaskIds == 1..MaxTasks

\* mutation of BufferSize: the queue holds the whole task list
BufferSize_TaskCount == ntasks

\* capacity of taskChan and errChan
BufferSize == IF mode = "fixed"
              THEN Min(maxWorkers * DefaultWorkerPoolBufferMultiplier, ntasks)
              ELSE maxWorkers * DefaultWorkerPoolBufferMultiplier
ErrChanCap == IF mode = "fixed" THEN 1 ELSE 2

\* mutation of NumWorkers: the fixed-list mode starts maxWorkers goroutines
NumWorkers_Uncapped == maxWorkers

\* numWorkers := min(maxWorkers, len(tasks)); for range maxWorkers in streamed mode
NumWorkers == IF mode = "fixed" THEN Min(maxWorkers, ntasks) ELSE maxWorkers

\* mutation of OfferErr: a later error overwrites the captured one
OfferErr_Overwrite(ch, err) == <<err>>

\* select { case errChan <- err: default: }
OfferErr(ch, err) == IF Len(ch) < ErrChanCap THEN Append(ch, err) ELSE ch

\* ------------------------------------------------------------------------
\* Initial state of one executor call
\* ------------------------------------------------------------------------
PoolInit ==
    /\ mode \in {"fixed", "stream"}
    /\ ntasks \in 0..MaxTasks
    /\ maxWorkers \in 0..MaxWorkers
    /\ callerCtx \in {"nil", "Canceled", "DeadlineExceeded"}
    /\ cancelCause = "none"
    /\ taskChan = <<>>
    /\ chanClosed = FALSE
    /\ errChan = <<>>
    /\ wpc = [w \in WorkerIds |-> "none"]
    /\ wtask = [w \in WorkerIds |-> 0]
    /\ sent = 0
    /\ ppc = "idle"
    /\ mpc = "start"
    /\ result = NilErr
    /\ runs = [t \in TaskIds |-> 0]
    /\ failOrder = <<>>
    /\ lateStart = {}
    /\ lateSent = {}
    /\ inflight = {}

\* the checks at the head of runWorkerPool, before any goroutine is started
FixedEarlyReturn ==
    IF ntasks = 0 THEN NilErr
    ELSE IF maxWorkers < 1 THEN ConfigErr
    ELSE CtxErr(callerCtx)

\* the checks at the head of runWorkerPoolStream
StreamEarlyReturn ==
    IF maxWorkers < 1 THEN ConfigErr
    ELSE CtxErr(callerCtx)

ReturnsEarly ==
    IF mode = "fixed"
    THEN ntasks = 0 \/ FixedEarlyReturn # NilErr
    ELSE StreamEarlyReturn # NilErr

\* runWorkerPool / runWorkerPoolStream up to the start of the goroutines
Start ==
    /\ mpc = "start"
    /\ IF ReturnsEarly
       THEN /\ mpc' = "done"
            /\ result' = IF mode = "fixed" THEN FixedEarlyReturn ELSE StreamEarlyReturn
            /\ UNCHANGED <<wpc, ppc>>
       ELSE /\ mpc' = "wait"
            /\ wpc' = [w \in WorkerIds |-> IF w <= NumWorkers THEN "select" ELSE "none"]
            /\ ppc' = "send"
            /\ UNCHANGED result
    /\ UNCHANGED <<mode, ntasks, maxWorkers, callerCtx, cancelCause, taskChan,
                   chanClosed, errChan, wtask, sent, runs, failOrder, lateStart, lateSent>>
    /\ UNCHANGED <<inflight, syncVars, dlVars, cryptoVars, upVars, auxVars>>

\* worker goroutine: case <-workerCtx.Done(): return
WorkerDone(w) ==
    /\ wpc[w] = "select"
    /\ WorkerCtxDone
    /\ wpc' = [wpc EXCEPT ![w] = "exited"]
    /\ UNCHANGED <<mode, ntasks, maxWorkers, callerCtx, cancelCause, taskChan,
                   chanClosed, errChan, wtask, sent, ppc, mpc, result, runs,
                   failOrder, lateStart, lateSent>>
    /\ UNCHANGED <<inflight, syncVars, dlVars, cryptoVars, upVars, auxVars>>

\* worker goroutine: case task, ok := <-taskChan with ok = true; worker(...) is called
WorkerTake(w) ==
    /\ wpc[w] = "select"
    /\ taskChan # <<>>
    /\ wpc' = [wpc EXCEPT ![w] = "running"]
    /\ wtask' = [wtask EXCEPT ![w] = Head(taskChan)]
    /\ taskChan' = Tail(taskChan)
    /\ runs' = [runs EXCEPT ![Head(taskChan)] = @ + 1]
    /\ lateStart' = IF cancelCause = "failure"
                    THEN lateStart \cup {Head(taskChan)} ELSE lateStart
    /\ UNCHANGED <<mode, ntasks, maxWorkers, callerCtx, cancelCause, chanClosed,
                   errChan, sent, ppc, mpc, result, failOrder, lateSent>>
    /\ UNCHANGED <<inflight, syncVars, dlVars, cryptoVars, upVars, auxVars>>

\* mutation of WorkerClosed: a worker leaves on close(taskChan) although tasks are queued
WorkerClosed_DropsQueued(w) ==
    /\ wpc[w] = "select"
    /\ chanClosed
    /\ wpc' = [wpc EXCEPT ![w] = "exited"]
    /\ UNCHANGED <<mode, ntasks, maxWorkers, callerCtx, cancelCause, taskChan,
                   chanClosed, errChan, wtask, sent, ppc, mpc, result, runs,
                   failOrder, lateStart, lateSent, inflight, syncVars, dlVars, cryptoVars, upVars, auxVars>>

\* worker goroutine: case task, ok := <-taskChan with ok = false
WorkerClosed(w) ==
    /\ wpc[w] = "select"
    /\ taskChan = <<>>
    /\ chanClosed
    /\ wpc' = [wpc EXCEPT ![w] = "exited"]
    /\ UNCHANGED <<mode, ntasks, maxWorkers, callerCtx, cancelCause, taskChan,
                   chanClosed, errChan, wtask, sent, ppc, mpc, result, runs,
                   failOrder, lateStart, lateSent>>
    /\ UNCHANGED <<inflight, syncVars, dlVars, cryptoVars, upVars, auxVars>>

\* worker(workerCtx, task) returned nil
WorkerReturnOk(w) ==
    /\ wpc[w] = "running"
    /\ wpc' = [wpc EXCEPT ![w] = "select"]
    /\ wtask' = [wtask EXCEPT ![w] = 0]
    /\ UNCHANGED <<mode, ntasks, maxWorkers, callerCtx, cancelCause, taskChan,
                   chanClosed, errChan, sent, ppc, mpc, result, runs, failOrder,
                   lateStart, lateSent>>
    /\ UNCHANGED <<inflight, syncVars, dlVars, cryptoVars, upVars, auxVars>>

\* the errors worker(workerCtx, task) can return: its own, or the context's once it is done
WorkerErrors(t) == {TaskErr(t)} \cup (IF WorkerCtxDone THEN {WorkerCtxErr} ELSE {})

\* if errors.Is(err, context.Canceled) && workerCtx.Err() != nil { return }
DropsError(err) == IsCanceled(err) /\ WorkerCtxDone

\* worker(workerCtx, task) returned err: drop it, or offer it to errChan
WorkerReturnErr(w) ==
    /\ wpc[w] = "running"
    /\ \E err \in WorkerErrors(wtask[w]) :
        IF DropsError(err)
        THEN /\ wpc' = [wpc EXCEPT ![w] = "exited"]
             /\ UNCHANGED <<errChan, failOrder>>
        ELSE /\ wpc' = [wpc EXCEPT ![w] = "capture"]
             /\ errChan' = OfferErr(errChan, err)
             /\ failOrder' = Append(failOrder, err)
    /\ wtask' = [wtask EXCEPT ![w] = 0]
    /\ UNCHANGED <<mode, ntasks, maxWorkers, callerCtx, cancelCause, taskChan,
                   chanClosed, sent, ppc, mpc, result, runs, lateStart, lateSent>>
    /\ UNCHANGED <<inflight, syncVars, dlVars, cryptoVars, upVars, auxVars>>

\* mutation of CancelBy: cancel() has no effect on workerCtx
CancelBy_Never(cause) == cancelCause

\* cancel() after the error was offered to errChan
CancelBy(cause) == IF cancelCause = "none" THEN cause ELSE cancelCause

\* the worker calls that are executing at the moment workerCtx becomes done
InflightAt(cause) ==
    IF cancelCause = "none"
    THEN {wtask[w] : w \in {x \in WorkerIds : wpc[x] = "running"}}
    ELSE inflight

\* worker goroutine: cancel(); return
WorkerCancel(w) ==
    /\ wpc[w] = "capture"
    /\ cancelCause' = CancelBy("failure")
    /\ wpc' = [wpc EXCEPT ![w] = "exited"]
    /\ UNCHANGED <<mode, ntasks, maxWorkers, callerCtx, taskChan, chanClosed,
                   errChan, wtask, sent, ppc, mpc, result, runs, failOrder,
                   lateStart, lateSent>>
    /\ inflight' = InflightAt("failure")
    /\ UNCHANGED <<syncVars, dlVars, cryptoVars, upVars, auxVars>>

\* the enqueue shared by the send loop and the producer: case taskChan <- task
Enqueue ==
    /\ sent < ntasks
    /\ Len(taskChan) < BufferSize
    /\ taskChan' = Append(taskChan, sent + 1)
    /\ sent' = sent + 1
    /\ lateSent' = IF cancelCause = "failure" THEN lateSent \cup {sent + 1} ELSE lateSent

\* runWorkerPool send loop: case taskChan <- task
SendTask ==
    /\ mode = "fixed"
    /\ ppc = "send"
    /\ Enqueue
    /\ UNCHANGED <<mode, ntasks, maxWorkers, callerCtx, cancelCause, chanClosed,
                   errChan, wpc, wtask, ppc, mpc, result, runs, failOrder, lateStart>>
    /\ UNCHANGED <<inflight, syncVars, dlVars, cryptoVars, upVars, auxVars>>

\* runWorkerPool send loop: case <-workerCtx.Done(): break sendLoop; close(taskChan)
SendBreak ==
    /\ mode = "fixed"
    /\ ppc = "send"
    /\ sent < ntasks
    /\ WorkerCtxDone
    /\ chanClosed' = TRUE
    /\ ppc' = "done"
    /\ UNCHANGED <<mode, ntasks, maxWorkers, callerCtx, cancelCause, taskChan,
                   errChan, wpc, wtask, sent, mpc, result, runs, failOrder,
                   lateStart, lateSent>>
    /\ UNCHANGED <<inflight, syncVars, dlVars, cryptoVars, upVars, auxVars>>

\* runWorkerPool send loop ran out of tasks; close(taskChan)
SendFinish ==
    /\ mode = "fixed"
    /\ ppc = "send"
    /\ sent = ntasks
    /\ chanClosed' = TRUE
    /\ ppc' = "done"
    /\ UNCHANGED <<mode, ntasks, maxWorkers, callerCtx, cancelCause, taskChan,
                   errChan, wpc, wtask, sent, mpc, result, runs, failOrder,
                   lateStart, lateSent>>
    /\ UNCHANGED <<inflight, syncVars, dlVars, cryptoVars, upVars, auxVars>>

\* producer: case taskChan <- task
ProducerSend ==
    /\ mode = "stream"
    /\ ppc = "send"
    /\ Enqueue
    /\ UNCHANGED <<mode, ntasks, maxWorkers, callerCtx, cancelCause, chanClosed,
                   errChan, wpc, wtask, ppc, mpc, result, runs, failOrder, lateStart>>
    /\ UNCHANGED <<inflight, syncVars, dlVars, cryptoVars, upVars, auxVars>>

\* if err := producer(...); err != nil && !errors.Is(err, context.Canceled)
ProducerErrCaptured(err) == err # NilErr /\ ~IsCanceled(err)

\* the producer goroutine once producer(workerCtx, taskChan) returned err
ProducerReturned(err) ==
    IF ProducerErrCaptured(err)
    THEN /\ errChan' = OfferErr(errChan, err)
         /\ failOrder' = Append(failOrder, err)
         /\ ppc' = "capture"
         /\ UNCHANGED chanClosed
    ELSE /\ chanClosed' = TRUE
         /\ ppc' = "done"
         /\ UNCHANGED <<errChan, failOrder>>

\* producer: case <-producerCtx.Done(): return producerCtx.Err()
ProducerSeesDone ==
    /\ mode = "stream"
    /\ ppc = "send"
    /\ sent < ntasks
    /\ WorkerCtxDone
    /\ ProducerReturned(WorkerCtxErr)
    /\ UNCHANGED <<mode, ntasks, maxWorkers, callerCtx, cancelCause, taskChan,
                   wpc, wtask, sent, mpc, result, runs, lateStart, lateSent>>
    /\ UNCHANGED <<inflight, syncVars, dlVars, cryptoVars, upVars, auxVars>>

\* producer returns an error of its own (a failed listing, a failed walk)
ProducerFail ==
    /\ mode = "stream"
    /\ ppc = "send"
    /\ ProducerReturned(ProducerErr)
    /\ UNCHANGED <<mode, ntasks, maxWorkers, callerCtx, cancelCause, taskChan,
                   wpc, wtask, sent, mpc, result, runs, lateStart, lateSent>>
    /\ UNCHANGED <<inflight, syncVars, dlVars, cryptoVars, upVars, auxVars>>

\* producer has yielded every task and returns nil
ProducerReturn ==
    /\ mode = "stream"
    /\ ppc = "send"
    /\ sent = ntasks
    /\ ProducerReturned(NilErr)
    /\ UNCHANGED <<mode, ntasks, maxWorkers, callerCtx, cancelCause, taskChan,
                   wpc, wtask, sent, mpc, result, runs, lateStart, lateSent>>
    /\ UNCHANGED <<inflight, syncVars, dlVars, cryptoVars, upVars, auxVars>>

\* mutation of ProducerCancel: the producer goroutine does not call cancel()
ProducerCancel_NoCancel ==
    /\ mode = "stream"
    /\ ppc = "capture"
    /\ chanClosed' = TRUE
    /\ ppc' = "done"
    /\ UNCHANGED <<mode, ntasks, maxWorkers, callerCtx, cancelCause, taskChan, errChan,
                   wpc, wtask, sent, mpc, result, runs, failOrder, lateStart, lateSent,
                   inflight, syncVars, dlVars, cryptoVars, upVars, auxVars>>

\* producer goroutine: cancel(), then the deferred close(taskChan), close(producerDone)
ProducerCancel ==
    /\ mode = "stream"
    /\ ppc = "capture"
    /\ cancelCause' = CancelBy("failure")
    /\ chanClosed' = TRUE
    /\ ppc' = "done"
    /\ UNCHANGED <<mode, ntasks, maxWorkers, callerCtx, taskChan, errChan, wpc,
                   wtask, sent, mpc, result, runs, failOrder, lateStart, lateSent>>
    /\ inflight' = InflightAt("failure")
    /\ UNCHANGED <<syncVars, dlVars, cryptoVars, upVars, auxVars>>

\* mutation of WaitOver: the executor does not wait for its workers
WaitOver_NoWaitGroup == ppc = "done"

\* wg.Wait() (and <-producerDone) returned
WaitOver ==
    /\ \A w \in WorkerIds : wpc[w] \in {"none", "exited"}
    /\ ppc = "done"

\* mutation of FinalResult: the default case returns nil without asking ctx.Err()
FinalResult_IgnoresCtx == IF errChan # <<>> THEN Head(errChan) ELSE NilErr

\* mutation of FinalResult: ctx.Err() is asked before errChan
FinalResult_CtxFirst ==
    IF CtxErr(callerCtx) # NilErr THEN CtxErr(callerCtx)
    ELSE IF errChan # <<>> THEN Head(errChan) ELSE NilErr

\* select { case err := <-errChan: return err; default: return ctx.Err() }
FinalResult == IF errChan # <<>> THEN Head(errChan) ELSE CtxErr(callerCtx)

\* the tail of runWorkerPool / runWorkerPoolStream
Finish ==
    /\ mpc = "wait"
    /\ WaitOver
    /\ result' = FinalResult
    /\ mpc' = "done"
    /\ UNCHANGED <<mode, ntasks, maxWorkers, callerCtx, cancelCause, taskChan,
                   chanClosed, errChan, wpc, wtask, sent, ppc, runs, failOrder,
                   lateStart, lateSent>>
    /\ UNCHANGED <<inflight, syncVars, dlVars, cryptoVars, upVars, auxVars>>

\* the caller cancels its context, or its deadline passes
CallerCancel ==
    /\ callerCtx = "nil"
    /\ mpc # "done"
    /\ \E c \in {"Canceled", "DeadlineExceeded"} : callerCtx' = c
    /\ cancelCause' = IF mpc = "wait" THEN CancelBy("caller") ELSE cancelCause
    /\ UNCHANGED <<mode, ntasks, maxWorkers, taskChan, chanClosed, errChan, wpc,
                   wtask, sent, ppc, mpc, result, runs, failOrder, lateStart, lateSent>>
    /\ inflight' = IF mpc = "wait" THEN InflightAt("caller") ELSE inflight
    /\ UNCHANGED <<syncVars, dlVars, cryptoVars, upVars, auxVars>>

PoolNext ==
    \/ Start
    \/ \E w \in WorkerIds : WorkerDone(w)
    \/ \E w \in WorkerIds : WorkerTake(w)
    \/ \E w \in WorkerIds : WorkerClosed(w)
    \/ \E w \in WorkerIds : WorkerReturnOk(w)
    \/ \E w \in WorkerIds : WorkerReturnErr(w)
    \/ \E w \in WorkerIds : WorkerCancel(w)
    \/ SendTask
    \/ SendBreak
    \/ SendFinish
    \/ ProducerSend
    \/ ProducerSeesDone
    \/ ProducerFail
    \/ ProducerReturn
    \/ ProducerCancel
    \/ Finish
    \/ CallerCancel

\* ------------------------------------------------------------------------
\* Files, objects and listings
\* ------------------------------------------------------------------------
Paths == 1..NumPaths
Hashes == {"h1", "h2"}

\* sizes of the encrypted container: salt and base nonce, length prefix, AEAD tag
HeaderSize == 44
ChunkPrefixSize == 4
TagSize == 16

\* the time at which the sync runs
Now == OldTime + 4

\* an MD5 digest, as the content it is the digest of
NoMD5 == [hash |-> "none", layers |-> 0]
MultipartETag == [hash |-> "multipart", layers |-> 0]
MD5Of(hash, layers) == [hash |-> hash, layers |-> layers]

NoFile == [hash |-> "none", layers |-> 0, mtime |-> 0]
NoObject == [hash |-> "none", layers |-> 0, etagOK |-> FALSE, md5meta |-> NoMD5,
             mtimeMeta |-> 0, lastMod |-> 0]

\* length in bytes of content h wrapped in so many encrypted containers (one chunk each)
DataSize(h, layers) ==
    (IF h = "h1" THEN 1 ELSE 2) + layers * (HeaderSize + ChunkPrefixSize + TagSize)

\* the files a local directory holds before the sync
InitLocalFiles == {[hash |-> h, layers |-> 0, mtime |-> OldTime] : h \in Hashes}

\* an object another tool stored in one part: its ETag is its MD5, it has no metadata
SinglePartObject(h) == [hash |-> h, layers |-> 0, etagOK |-> TRUE, md5meta |-> NoMD5,
                        mtimeMeta |-> 0, lastMod |-> OldTime]
\* an object another tool stored in several parts: its ETag is no content digest
MultipartObject(h) == [hash |-> h, layers |-> 0, etagOK |-> FALSE, md5meta |-> NoMD5,
                       mtimeMeta |-> 0, lastMod |-> OldTime + 2]
\* an object an earlier encrypted upload stored
EncryptedObject(h) == [hash |-> h, layers |-> 1, etagOK |-> TRUE, md5meta |-> NoMD5,
                       mtimeMeta |-> OldTime, lastMod |-> OldTime + 2]

ETagOf(o) == IF o.etagOK THEN MD5Of(o.hash, o.layers) ELSE MultipartETag

IgnoreSets == {{}, {1}}

\* listLocalFilesWithOptions: the regular files shouldIgnoreFile does not exclude
ListLocalFilesWithOptions(calculateChecksums) ==
    [p \in {q \in Paths : localFS[q] # NoFile /\ q \notin ignored} |->
        [Size |-> DataSize(localFS[p].hash, localFS[p].layers),
         MD5Hash |-> IF calculateChecksums
                     THEN MD5Of(localFS[p].hash, localFS[p].layers) ELSE NoMD5,
         ModTime |-> localFS[p].mtime]]

\* listS3Files: the keys under the prefix shouldIgnoreFile does not exclude
ListS3Files ==
    [p \in {q \in Paths : remoteFS[q] # NoObject /\ q \notin ignored} |->
        [Size |-> DataSize(remoteFS[p].hash, remoteFS[p].layers),
         MD5Hash |-> ETagOf(remoteFS[p]),
         ModTime |-> remoteFS[p].lastMod]]

\* s3Client.HeadObject: the object's metadata, or a failure
HeadObject(p, fails) ==
    IF fails THEN [ok |-> FALSE, md5 |-> NoMD5, mtime |-> 0]
    ELSE [ok |-> TRUE, md5 |-> remoteFS[p].md5meta, mtime |-> remoteFS[p].mtimeMeta]

ShouldUseChecksumCompare == syncCompare # "size-time"

FilesAreSameWithMetadataCheck_SizeAndETagKind(localFile, s3File, head) ==
    IF localFile.Size # s3File.Size THEN FALSE
    ELSE IF localFile.MD5Hash = s3File.MD5Hash THEN TRUE
    ELSE ~(head.ok /\ head.md5 # NoMD5)

\* filesAreSameWithMetadataCheck
FilesAreSameWithMetadataCheck(localFile, s3File, head) ==
    IF localFile.Size # s3File.Size THEN FALSE
    ELSE IF localFile.MD5Hash = s3File.MD5Hash THEN TRUE
    ELSE IF head.ok /\ head.md5 # NoMD5 THEN localFile.MD5Hash = head.md5
    ELSE localFile.MD5Hash = s3File.MD5Hash

Abs(x) == IF x < 0 THEN -x ELSE x

\* a local-mtime metadata value that is no decimal number
Unparsable == -1

\* strconv.ParseInt(storedMTime, 10, 64)
ParseInt(text) ==
    IF text = Unparsable THEN [ok |-> FALSE, val |-> 0] ELSE [ok |-> TRUE, val |-> text]

FilesAreSameWithMtimeCheck_WideTolerance(localFile, s3File, head) ==
    IF localFile.Size # s3File.Size THEN FALSE
    ELSE IF Abs(localFile.ModTime - s3File.ModTime) <= 2 THEN TRUE
    ELSE IF ~head.ok THEN FALSE
    ELSE IF head.mtime = 0 THEN FALSE
    ELSE head.mtime = localFile.ModTime

\* filesAreSameWithMtimeCheck
FilesAreSameWithMtimeCheck(localFile, s3File, head) ==
    IF localFile.Size # s3File.Size THEN FALSE
    ELSE IF /\ localFile.ModTime > 0
            /\ s3File.ModTime > 0
            /\ Abs(localFile.ModTime - s3File.ModTime) <= 1 THEN TRUE
    ELSE IF ~head.ok THEN FALSE
    ELSE IF head.mtime = 0 THEN FALSE
    ELSE IF ~ParseInt(head.mtime).ok THEN FALSE
    ELSE ParseInt(head.mtime).val = localFile.ModTime

\* filesAreSameByMode
FilesAreSameByMode(localFile, s3File, head) ==
    IF ShouldUseChecksumCompare
    THEN FilesAreSameWithMetadataCheck(localFile, s3File, head)
    ELSE FilesAreSameWithMtimeCheck(localFile, s3File, head)

\* the comparison reaches its HeadObject call
ConsultsHead(localFile, s3File) ==
    /\ localFile.Size = s3File.Size
    /\ IF ShouldUseChecksumCompare
       THEN localFile.MD5Hash # s3File.MD5Hash
       ELSE ~(/\ localFile.ModTime > 0
              /\ s3File.ModTime > 0
              /\ Abs(localFile.ModTime - s3File.ModTime) <= 1)

\* uploadFileWithParams: the object a successful upload of file f stores
UploadedObject(f) ==
    [hash |-> f.hash,
     layers |-> IF encrypt THEN f.layers + 1 ELSE f.layers,
     etagOK |-> TRUE,
     md5meta |-> IF encrypt THEN NoMD5 ELSE MD5Of(f.hash, f.layers),
     mtimeMeta |-> f.mtime,
     lastMod |-> Now]

\* downloadFileWithParams, then os.Chtimes in downloadFiles: the file a successful
\* download of object o leaves
DownloadedFile(o, chtimesOk) ==
    [hash |-> o.hash,
     layers |-> IF encrypt THEN o.layers - 1 ELSE o.layers,
     mtime |-> IF ~ShouldUseChecksumCompare /\ o.lastMod > 0 /\ chtimesOk
               THEN o.lastMod ELSE Now]

\* decryptStreamFromReader accepts the object: it is an encrypted container
Decryptable(o) == o.layers >= 1

EmptyBag == [p \in Paths |-> 0]
BagAdd(b, p) == [b EXCEPT ![p] = @ + 1]
BagIsEmpty(b) == \A p \in Paths : b[p] = 0

ListErr == [kind |-> "list", id |-> 0]

\* ------------------------------------------------------------------------
\* Sync: syncLocalToS3 / syncS3ToLocal
\* ------------------------------------------------------------------------
\* no retryOperation call is being followed
RetryIdle ==
    /\ retryMax = 0
    /\ retryPc = "idle"
    /\ retryAttempts = <<>>
    /\ retryResult = [text |-> "none", attempts |-> 0, last |-> "nil", unwrap |-> "none"]

\* the tasks of a recursive copy
DcTasks == 1..MaxTasks

\* no recursive copy is being followed
DirCopyIdle ==
    /\ dcKind = "idle"
    /\ dcDryRun = FALSE
    /\ dcListed = {}
    /\ dcDirs = {}
    /\ dcDirs0 = {}
    /\ dcStored = {}
    /\ dcPending = {}
    /\ dcRunning = {}
    /\ dcAttempted = {}
    /\ dcReturned = [t \in DcTasks |-> "none"]
    /\ dcCancelled = FALSE
    /\ dcCaptured = "none"
    /\ dcPc = "idle"
    /\ dcErr = "none"

\* the goroutines of a sync call: the caller (0) and the worker goroutines
Goroutines == 0..MaxWorkers
ListNames == {"Uploaded", "Downloaded", "Deleted", "Errors"}
NoEntry == [list |-> "none", path |-> 0]

\* no SyncResult is being followed
ReportIdle ==
    /\ rpDir = "idle"
    /\ rpPending = {}
    /\ rpDelPending = {}
    /\ rpPc = [g \in Goroutines |-> "done"]
    /\ rpEntry = [g \in Goroutines |-> NoEntry]
    /\ rpSlice = [g \in Goroutines |-> <<>>]
    /\ rpMutex = -1
    /\ rpLists = [l \in ListNames |-> <<>>]
    /\ rpAppends = 0

MaxCallers == 3
ClCallers == 1..MaxCallers

\* no getS3Client call is being followed
ClientIdle ==
    /\ clPc = [c \in ClCallers |-> "idle"]
    /\ clGot = [c \in ClCallers |-> 0]
    /\ clMutex = -1
    /\ clInstance = 0
    /\ clBuilt = 0
    /\ clTotal = 0
    /\ clResets = 0

AuxIdle ==
    /\ RetryIdle
    /\ DirCopyIdle
    /\ ReportIdle
    /\ ClientIdle

\* no encrypted upload is being followed
UploadIdle ==
    /\ upTotal = 1
    /\ upPc = "idle"
    /\ encPc = "idle"
    /\ encWritten = 0
    /\ pipePending = FALSE
    /\ pipeWriter = "open"
    /\ pipeReader = "open"
    /\ upReceived = 0
    /\ encResult = "none"
    /\ upErrChan = <<>>
    /\ uploadErr = "none"
    /\ upReturn = "none"
    /\ keyHolds = "old"

\* no encryption or decryption is being followed
CryptoIdle ==
    /\ password = "p1"
    /\ plain = <<>>
    /\ cpc = "idle"
    /\ encPos = 0
    /\ container = <<>>
    /\ tamperAt = 0
    /\ decPos = 0
    /\ nonceCounter = 0
    /\ output = <<>>
    /\ decErr = "nil"
    /\ decPassword = "p1"
    /\ fault = "none"
    /\ encErr = "nil"
    /\ encNonces = <<>>
    /\ decNonces = <<>>
    /\ order = <<>>

\* no download is being followed
DownloadIdle ==
    /\ dpc = "idle"
    /\ dlTemp = "none"
    /\ dlDec = "none"
    /\ dlErr = "nil"
    /\ dlOrig = NoFile
    /\ checkSkipExisting = FALSE
    /\ forceOverwrite = FALSE

\* the pool's state while the model follows a sync call
PoolIdle ==
    /\ mode = "stream"
    /\ ntasks = 0
    /\ cancelCause = "none"
    /\ taskChan = <<>>
    /\ chanClosed = FALSE
    /\ errChan = <<>>
    /\ wpc = [w \in WorkerIds |-> "none"]
    /\ wtask = [w \in WorkerIds |-> 0]
    /\ sent = 0
    /\ ppc = "idle"
    /\ mpc = "done"
    /\ result = NilErr
    /\ runs = [t \in TaskIds |-> 0]
    /\ failOrder = <<>>
    /\ lateStart = {}
    /\ lateSent = {}
    /\ inflight = {}

\* the sync state while the model follows an executor call
SyncIdle ==
    /\ direction = "up"
    /\ syncCompare = "checksum"
    /\ encrypt = FALSE
    /\ dryRun = FALSE
    /\ ignored = {}
    /\ localFS = [p \in Paths |-> NoFile]
    /\ remoteFS = [p \in Paths |-> NoObject]
    /\ spc = "done"
    /\ syncRun = 1
    /\ toTransfer = {}
    /\ toDelete = {}
    /\ verdict = [p \in Paths |-> "none"]
    /\ pending = {}
    /\ pendingDel = {}
    /\ uploaded = EmptyBag
    /\ downloaded = EmptyBag
    /\ deleted = EmptyBag
    /\ errors = EmptyBag
    /\ syncErr = NilErr
    /\ mutations = {}
    /\ silentFault = FALSE

\* the state of a sync call before its first statement
SyncFresh ==
    /\ spc = "start"
    /\ syncRun = 1
    /\ toTransfer = {}
    /\ toDelete = {}
    /\ verdict = [p \in Paths |-> "none"]
    /\ pending = {}
    /\ pendingDel = {}
    /\ uploaded = EmptyBag
    /\ downloaded = EmptyBag
    /\ deleted = EmptyBag
    /\ errors = EmptyBag
    /\ syncErr = NilErr
    /\ mutations = {}
    /\ silentFault = FALSE

SyncInit ==
    /\ PoolIdle
    /\ maxWorkers \in 0..1
    /\ callerCtx = "nil"
    /\ direction \in {"up", "down"}
    /\ syncCompare \in {"checksum", "size-time"}
    /\ encrypt \in BOOLEAN
    /\ dryRun \in BOOLEAN
    /\ ignored \in IgnoreSets
    /\ localFS \in [Paths -> InitLocalFiles \cup {NoFile}]
    /\ remoteFS \in [Paths -> {SinglePartObject("h1"), EncryptedObject("h1"), NoObject}]
    /\ \A p \in Paths : p > SyncPaths => localFS[p] = NoFile /\ remoteFS[p] = NoObject
    /\ SyncFresh
    /\ DownloadIdle
    /\ CryptoIdle
    /\ UploadIdle
    /\ AuxIdle

\* the source and the destination listing of the sync direction
SourceList(localFiles, s3Files) == IF direction = "up" THEN localFiles ELSE s3Files
DestList(localFiles, s3Files) == IF direction = "up" THEN s3Files ELSE localFiles

\* mutation of DiffToDelete: the delete set is taken from the source listing
DiffToDelete_FromSource(src, dst) == {p \in DOMAIN src : p \notin DOMAIN dst}

\* for relPath, file := range destination map: absent from the source map -> toDelete
DiffToDelete(src, dst) == {p \in DOMAIN dst : p \notin DOMAIN src}

\* mutation of DiffToTransfer: only paths absent from the destination are transferred
DiffToTransfer_OnlyAbsent(src, dst, same) == {p \in DOMAIN src : p \notin DOMAIN dst}

\* for relPath, file := range source map: absent from the destination map or not the
\* same -> toUpload / toDownload
DiffToTransfer(src, dst, same) ==
    {p \in DOMAIN src : IF p \in DOMAIN dst THEN p \notin same ELSE TRUE}

\* syncLocalToS3 / syncS3ToLocal: both listings, the comparison, the two lists
SyncPlan ==
    /\ spc = "start"
    /\ callerCtx = "nil"
    /\ LET localFiles == ListLocalFilesWithOptions(ShouldUseChecksumCompare)
           s3Files == ListS3Files
           both == DOMAIN localFiles \cap DOMAIN s3Files
           heads == {p \in both : ConsultsHead(localFiles[p], s3Files[p])}
       IN \E headFail \in SUBSET heads :
            LET same == {p \in both : FilesAreSameByMode(localFiles[p], s3Files[p],
                                                     HeadObject(p, p \in headFail))}
            IN /\ toTransfer' = DiffToTransfer(SourceList(localFiles, s3Files),
                                               DestList(localFiles, s3Files), same)
               /\ toDelete' = DiffToDelete(SourceList(localFiles, s3Files),
                                           DestList(localFiles, s3Files))
               /\ verdict' = [p \in Paths |->
                                IF p \notin both THEN "none"
                                ELSE IF p \in same THEN "SAME" ELSE "DIFFERENT"]
               /\ silentFault' = (silentFault \/ headFail # {})
    /\ spc' = "planned"
    /\ UNCHANGED <<auxVars, upVars, cryptoVars, dlVars, poolOnly, maxWorkers, callerCtx, direction, syncCompare, encrypt,
                   dryRun, ignored, localFS, remoteFS, syncRun, pending, pendingDel,
                   uploaded, downloaded, deleted, errors, syncErr, mutations>>

\* listLocalFilesWithOptions or listS3Files returned an error
SyncListFail ==
    /\ spc = "start"
    /\ spc' = "done"
    /\ syncErr' = ListErr
    /\ UNCHANGED <<auxVars, upVars, cryptoVars, dlVars, poolOnly, maxWorkers, callerCtx, direction, syncCompare, encrypt,
                   dryRun, ignored, localFS, remoteFS, syncRun, toTransfer, toDelete,
                   verdict, pending, pendingDel, uploaded, downloaded, deleted, errors,
                   mutations, silentFault>>

\* if len(toUpload) > 0 { uploadFiles(...) }: the head of runWorkerPoolStream
SyncBeginTransfer ==
    /\ spc = "planned"
    /\ IF toTransfer = {}
       THEN /\ spc' = "delete"
            /\ pendingDel' = toDelete
            /\ UNCHANGED <<pending, syncErr>>
       ELSE IF StreamEarlyReturn # NilErr
       THEN /\ spc' = "done"
            /\ syncErr' = StreamEarlyReturn
            /\ UNCHANGED <<pending, pendingDel>>
       ELSE /\ spc' = "transfer"
            /\ pending' = toTransfer
            /\ UNCHANGED <<pendingDel, syncErr>>
    /\ UNCHANGED <<auxVars, upVars, cryptoVars, dlVars, poolOnly, maxWorkers, callerCtx, direction, syncCompare, encrypt,
                   dryRun, ignored, localFS, remoteFS, syncRun, toTransfer, toDelete,
                   verdict, uploaded, downloaded, deleted, errors, mutations, silentFault>>

\* mutation of RecordError: a failed transfer or delete leaves no entry in Errors
RecordError_Dropped(b, p) == b

\* result.Errors = append(result.Errors, ...) before return nil / continue
RecordError(b, p) == BagAdd(b, p)

\* mutation of DeletesLocalSide: the local delete loop runs in both directions
DeletesLocalSide_Always == TRUE

\* deleteLocalFiles is called by syncS3ToLocal only
DeletesLocalSide == direction = "down"

\* mutation of SyncDryRun: the per-file closures and delete loops ignore the flag
SyncDryRun_Ignored == FALSE

\* if dryRun { ... } at the head of the per-file closures and of the delete loops
SyncDryRun == dryRun

\* if dryRun { return nil } in uploadFileWithParams and downloadFileWithParams
TransferDryRun == dryRun

\* the ways the download of one file can end: os.MkdirAll fails; the transfer or the
\* decryption fails; the file cannot be moved into place; success
DownloadOutcomes(p) ==
    {"mkdir", "transfer"} \cup
    (IF callerCtx = "nil" /\ (encrypt => Decryptable(remoteFS[p]))
     THEN {"replace", "ok"} ELSE {})

\* uploadFiles: the worker closure for one file of toUpload
SyncUpload(p) ==
    /\ spc = "transfer"
    /\ direction = "up"
    /\ p \in pending
    /\ pending' = pending \ {p}
    /\ IF SyncDryRun \/ TransferDryRun
       THEN /\ uploaded' = BagAdd(uploaded, p)
            /\ UNCHANGED <<remoteFS, errors, mutations>>
       ELSE \E ok \in {callerCtx = "nil", FALSE} :
              IF ok
              THEN /\ remoteFS' = [remoteFS EXCEPT ![p] = UploadedObject(localFS[p])]
                   /\ mutations' = mutations \cup {"PutObject"}
                   /\ uploaded' = BagAdd(uploaded, p)
                   /\ UNCHANGED errors
              ELSE /\ errors' = RecordError(errors, p)
                   /\ UNCHANGED <<remoteFS, uploaded, mutations>>
    /\ UNCHANGED <<auxVars, upVars, cryptoVars, dlVars, poolOnly, maxWorkers, callerCtx, direction, syncCompare, encrypt,
                   dryRun, ignored, localFS, spc, syncRun, toTransfer, toDelete, verdict,
                   pendingDel, downloaded, deleted, syncErr, silentFault>>

\* downloadFiles: the worker closure for one file of toDownload
SyncDownload(p) ==
    /\ spc = "transfer"
    /\ direction = "down"
    /\ p \in pending
    /\ pending' = pending \ {p}
    /\ IF SyncDryRun
       THEN /\ downloaded' = BagAdd(downloaded, p)
            /\ UNCHANGED <<localFS, errors, mutations, silentFault>>
       ELSE \E outcome \in DownloadOutcomes(p), chtimesOk \in BOOLEAN :
              IF outcome = "mkdir"
              THEN /\ errors' = RecordError(errors, p)
                   /\ UNCHANGED <<localFS, downloaded, mutations, silentFault>>
              ELSE IF TransferDryRun
              THEN /\ downloaded' = BagAdd(downloaded, p)
                   /\ mutations' = mutations \cup {"MkdirAll"}
                   /\ UNCHANGED <<localFS, errors, silentFault>>
              ELSE IF outcome = "transfer"
              THEN /\ errors' = RecordError(errors, p)
                   /\ mutations' = mutations \cup {"MkdirAll", "CreateTemp", "Remove"}
                   /\ UNCHANGED <<localFS, downloaded, silentFault>>
              ELSE IF outcome = "replace"
              THEN /\ errors' = RecordError(errors, p)
                   /\ localFS' = [localFS EXCEPT ![p] = NoFile]
                   /\ mutations' = mutations \cup {"MkdirAll", "CreateTemp", "Remove"}
                   /\ UNCHANGED <<downloaded, silentFault>>
              ELSE /\ localFS' = [localFS EXCEPT
                                    ![p] = DownloadedFile(remoteFS[p], chtimesOk)]
                   /\ mutations' = mutations \cup {"MkdirAll", "CreateTemp", "Rename"}
                                     \cup (IF ~ShouldUseChecksumCompare /\ chtimesOk
                                           THEN {"Chtimes"} ELSE {})
                   /\ silentFault' = (silentFault \/
                                        (~ShouldUseChecksumCompare /\ ~chtimesOk))
                   /\ downloaded' = BagAdd(downloaded, p)
                   /\ UNCHANGED errors
    /\ UNCHANGED <<auxVars, upVars, cryptoVars, dlVars, poolOnly, maxWorkers, callerCtx, direction, syncCompare, encrypt,
                   dryRun, ignored, remoteFS, spc, syncRun, toTransfer, toDelete, verdict,
                   pendingDel, uploaded, deleted, syncErr>>

\* runWorkerPoolStream returned after every task was taken: ctx.Err() decides
SyncTransferEnd ==
    /\ spc = "transfer"
    /\ pending = {}
    /\ IF CtxErr(callerCtx) # NilErr
       THEN /\ spc' = "done"
            /\ syncErr' = CtxErr(callerCtx)
            /\ UNCHANGED pendingDel
       ELSE /\ spc' = "delete"
            /\ pendingDel' = toDelete
            /\ UNCHANGED syncErr
    /\ UNCHANGED <<auxVars, upVars, cryptoVars, dlVars, poolOnly, maxWorkers, callerCtx, direction, syncCompare, encrypt,
                   dryRun, ignored, localFS, remoteFS, syncRun, toTransfer, toDelete,
                   verdict, pending, uploaded, downloaded, deleted, errors, mutations,
                   silentFault>>

\* mutation of SyncTransferAbort: the delete loop runs although the transfers failed
SyncTransferAbort_ThenDeletes ==
    /\ spc = "transfer"
    /\ pending # {}
    /\ CtxErr(callerCtx) # NilErr
    /\ spc' = "delete"
    /\ pendingDel' = toDelete
    /\ syncErr' = CtxErr(callerCtx)
    /\ UNCHANGED <<auxVars, upVars, cryptoVars, dlVars, poolOnly, maxWorkers, callerCtx, direction, syncCompare, encrypt,
                   dryRun, ignored, localFS, remoteFS, syncRun, toTransfer, toDelete,
                   verdict, pending, uploaded, downloaded, deleted, errors,
                   mutations, silentFault>>

\* the caller's context is done: producer and workers leave, tasks remain untaken
SyncTransferAbort ==
    /\ spc = "transfer"
    /\ pending # {}
    /\ CtxErr(callerCtx) # NilErr
    /\ spc' = "done"
    /\ syncErr' = CtxErr(callerCtx)
    /\ UNCHANGED <<auxVars, upVars, cryptoVars, dlVars, poolOnly, maxWorkers, callerCtx, direction, syncCompare, encrypt,
                   dryRun, ignored, localFS, remoteFS, syncRun, toTransfer, toDelete,
                   verdict, pending, pendingDel, uploaded, downloaded, deleted, errors,
                   mutations, silentFault>>

\* deleteLocalFiles: one iteration of the loop
SyncDeleteLocal(p) ==
    /\ spc = "delete"
    /\ DeletesLocalSide
    /\ p \in pendingDel
    /\ pendingDel' = pendingDel \ {p}
    /\ IF SyncDryRun
       THEN /\ deleted' = BagAdd(deleted, p)
            /\ UNCHANGED <<localFS, errors, mutations>>
       ELSE \E ok \in BOOLEAN :
              IF ok
              THEN /\ localFS' = [localFS EXCEPT ![p] = NoFile]
                   /\ mutations' = mutations \cup {"Remove"}
                   /\ deleted' = BagAdd(deleted, p)
                   /\ UNCHANGED errors
              ELSE /\ errors' = RecordError(errors, p)
                   /\ UNCHANGED <<localFS, deleted, mutations>>
    /\ UNCHANGED <<auxVars, upVars, cryptoVars, dlVars, poolOnly, maxWorkers, callerCtx, direction, syncCompare, encrypt,
                   dryRun, ignored, remoteFS, spc, syncRun, toTransfer, toDelete, verdict,
                   pending, uploaded, downloaded, syncErr, silentFault>>

\* deleteS3Files: one iteration of the loop
SyncDeleteS3(p) ==
    /\ spc = "delete"
    /\ direction = "up"
    /\ p \in pendingDel
    /\ pendingDel' = pendingDel \ {p}
    /\ IF SyncDryRun
       THEN /\ deleted' = BagAdd(deleted, p)
            /\ UNCHANGED <<remoteFS, errors, mutations>>
       ELSE \E ok \in {callerCtx = "nil", FALSE} :
              IF ok
              THEN /\ remoteFS' = [remoteFS EXCEPT ![p] = NoObject]
                   /\ mutations' = mutations \cup {"DeleteObject"}
                   /\ deleted' = BagAdd(deleted, p)
                   /\ UNCHANGED errors
              ELSE /\ errors' = RecordError(errors, p)
                   /\ UNCHANGED <<remoteFS, deleted, mutations>>
    /\ UNCHANGED <<auxVars, upVars, cryptoVars, dlVars, poolOnly, maxWorkers, callerCtx, direction, syncCompare, encrypt,
                   dryRun, ignored, localFS, spc, syncRun, toTransfer, toDelete, verdict,
                   pending, uploaded, downloaded, syncErr, silentFault>>

\* return result, nil
SyncReturn ==
    /\ spc = "delete"
    /\ pendingDel = {}
    /\ spc' = "done"
    /\ UNCHANGED <<auxVars, upVars, cryptoVars, dlVars, poolOnly, maxWorkers, callerCtx, direction, syncCompare, encrypt,
                   dryRun, ignored, localFS, remoteFS, syncRun, toTransfer, toDelete,
                   verdict, pending, pendingDel, uploaded, downloaded, deleted, errors,
                   syncErr, mutations, silentFault>>

\* a second sync call with the same settings follows one that reported no error
SyncAgain ==
    /\ spc = "done"
    /\ syncRun = 1
    /\ syncErr = NilErr
    /\ BagIsEmpty(errors)
    /\ spc' = "start"
    /\ syncRun' = 2
    /\ toTransfer' = {}
    /\ toDelete' = {}
    /\ verdict' = [p \in Paths |-> "none"]
    /\ uploaded' = EmptyBag
    /\ downloaded' = EmptyBag
    /\ deleted' = EmptyBag
    /\ UNCHANGED <<auxVars, upVars, cryptoVars, dlVars, poolOnly, maxWorkers, callerCtx, direction, syncCompare, encrypt,
                   dryRun, ignored, localFS, remoteFS, pending, pendingDel, errors,
                   syncErr, mutations, silentFault>>

\* the caller cancels the context of the sync call
SyncCallerCancel ==
    /\ spc # "done"
    /\ callerCtx = "nil"
    /\ callerCtx' = "Canceled"
    /\ UNCHANGED <<auxVars, upVars, cryptoVars, dlVars, poolOnly, maxWorkers, syncVars>>

SyncNext ==
    \/ SyncPlan
    \/ SyncListFail
    \/ SyncBeginTransfer
    \/ \E p \in Paths : SyncUpload(p)
    \/ \E p \in Paths : SyncDownload(p)
    \/ SyncTransferEnd
    \/ SyncTransferAbort
    \/ \E p \in Paths : SyncDeleteLocal(p)
    \/ \E p \in Paths : SyncDeleteS3(p)
    \/ SyncReturn
    \/ SyncAgain
    \/ SyncCallerCancel

SpecSync == SyncInit /\ [][SyncNext]_vars

\* the diff alone, over every pair of trees on NumPaths paths
DiffInit ==
    /\ PoolIdle
    /\ maxWorkers = 1
    /\ callerCtx = "nil"
    /\ direction \in {"up", "down"}
    /\ syncCompare \in {"checksum", "size-time"}
    /\ encrypt = FALSE
    /\ dryRun = FALSE
    /\ ignored \in IgnoreSets
    /\ localFS \in [Paths -> InitLocalFiles \cup {NoFile}]
    /\ remoteFS \in [Paths -> {SinglePartObject(h) : h \in Hashes}
                               \cup {MultipartObject("h1"), EncryptedObject("h1"),
                                     NoObject}]
    /\ SyncFresh
    /\ DownloadIdle
    /\ CryptoIdle
    /\ UploadIdle
    /\ AuxIdle

SpecDiff == DiffInit /\ [][SyncPlan]_vars

\* the path the comparison of one pair of files is followed on
CmpPath == CHOOSE p \in Paths : \A q \in Paths : p <= q
\* contents: "h3" has the size of "h2"
CmpHashes == Hashes \cup {"h3"}
\* the local file of the pair
CmpLocalFiles == {[hash |-> h, layers |-> 0, mtime |-> OldTime + 2] : h \in CmpHashes}
\* the object of the pair: any content, plain or encrypted, a digest or a multipart
\* ETag, every kind of local-md5 and local-mtime metadata, LastModified around the
\* local modification time
CmpObjects ==
    [hash : CmpHashes, layers : {0, 1}, etagOK : BOOLEAN,
     md5meta : {NoMD5} \cup {MD5Of(h, 0) : h \in CmpHashes},
     mtimeMeta : {0, Unparsable, OldTime + 2, OldTime + 3},
     lastMod : OldTime..(OldTime + 4)]

\* a sync whose two trees hold one path each, the same one
CompareInit ==
    /\ PoolIdle
    /\ maxWorkers = 1
    /\ callerCtx = "nil"
    /\ direction \in {"up", "down"}
    /\ syncCompare \in {"checksum", "size-time"}
    /\ encrypt = FALSE
    /\ dryRun = FALSE
    /\ ignored = {}
    /\ \E f \in CmpLocalFiles : localFS = [p \in Paths |-> IF p = CmpPath THEN f ELSE NoFile]
    /\ \E o \in CmpObjects : remoteFS = [p \in Paths |-> IF p = CmpPath THEN o ELSE NoObject]
    /\ SyncFresh
    /\ DownloadIdle
    /\ CryptoIdle
    /\ UploadIdle
    /\ AuxIdle

SpecCompare == CompareInit /\ [][SyncPlan]_vars

\* ------------------------------------------------------------------------
\* Download of one object: downloadFileWithParams
\* ------------------------------------------------------------------------
\* the relative path the single download writes to
DlPath == CHOOSE p \in Paths : \A q \in Paths : p <= q

\* an object an earlier plain upload stored in several parts with its local-md5
OwnMultipartObject(h) == [hash |-> h, layers |-> 0, etagOK |-> FALSE,
                          md5meta |-> MD5Of(h, 0), mtimeMeta |-> OldTime,
                          lastMod |-> OldTime + 2]

\* the sync state that is not the flags and the trees, at rest
SyncQuiet ==
    /\ ignored = {}
    /\ direction = "down"
    /\ syncCompare = "checksum"
    /\ spc = "done"
    /\ syncRun = 1
    /\ toTransfer = {}
    /\ toDelete = {}
    /\ verdict = [p \in Paths |-> "none"]
    /\ pending = {}
    /\ pendingDel = {}
    /\ uploaded = EmptyBag
    /\ downloaded = EmptyBag
    /\ deleted = EmptyBag
    /\ errors = EmptyBag
    /\ syncErr = NilErr
    /\ mutations = {}
    /\ silentFault = FALSE

DownloadInit ==
    /\ PoolIdle
    /\ CryptoIdle
    /\ UploadIdle
    /\ AuxIdle
    /\ SyncQuiet
    /\ maxWorkers = 1
    /\ callerCtx \in {"nil", "Canceled"}
    /\ encrypt \in BOOLEAN
    /\ dryRun \in BOOLEAN
    /\ checkSkipExisting \in BOOLEAN
    /\ forceOverwrite \in BOOLEAN
    /\ localFS \in [Paths -> InitLocalFiles \cup {NoFile}]
    /\ remoteFS \in [Paths -> {SinglePartObject(h) : h \in Hashes}
                               \cup {OwnMultipartObject("h1"), EncryptedObject("h1"),
                                     NoObject}]
    /\ \A p \in Paths : p # DlPath => localFS[p] = NoFile /\ remoteFS[p] = NoObject
    /\ dpc = "start"
    /\ dlTemp = "none"
    /\ dlDec = "none"
    /\ dlErr = "nil"
    /\ dlOrig = localFS[DlPath]

\* compareFileChecksums: ETag or local-md5 metadata equals the local MD5
CompareFileChecksums(o, localMD5) ==
    /\ o # NoObject
    /\ \/ ETagOf(o) = localMD5
       \/ (o.md5meta # NoMD5 /\ o.md5meta = localMD5)

\* the content the download moves into place
FetchedFile(o) ==
    [hash |-> o.hash,
     layers |-> IF encrypt THEN o.layers - 1 ELSE o.layers,
     mtime |-> Now]

\* a temporary file after the deferred os.Remove
Removed(t) == IF t \in {"none", "moved"} THEN t ELSE "removed"

dlUnchanged == <<auxVars, upVars, cryptoVars, poolVars, direction, syncCompare, encrypt, dryRun, ignored, remoteFS,
                 spc, syncRun, toTransfer, toDelete, verdict, pending, pendingDel,
                 uploaded, downloaded, deleted, errors, syncErr, silentFault, dlOrig,
                 checkSkipExisting, forceOverwrite>>

\* the function returns err; the deferred removals of the temporary files run
DownloadReturns(err) ==
    /\ dpc' = "done"
    /\ dlErr' = err
    /\ dlTemp' = Removed(dlTemp)
    /\ dlDec' = Removed(dlDec)

\* if dryRun { return nil }; then the condition of the skip check
DownloadStart ==
    /\ dpc = "start"
    /\ IF TransferDryRun
       THEN DownloadReturns("nil")
       ELSE /\ dpc' = IF /\ checkSkipExisting /\ ~forceOverwrite /\ ~encrypt
                         /\ localFS[DlPath] # NoFile
                      THEN "skipcheck" ELSE "temp"
            /\ UNCHANGED <<dlTemp, dlDec, dlErr>>
    /\ UNCHANGED <<dlUnchanged, localFS, mutations>>

\* calculateFileMD5, getS3Client, compareFileChecksums: skip, or go on to download
DownloadSkipCheck ==
    /\ dpc = "skipcheck"
    /\ \E checkFails \in BOOLEAN :
         IF /\ ~checkFails
            /\ callerCtx = "nil"
            /\ CompareFileChecksums(remoteFS[DlPath],
                                    MD5Of(localFS[DlPath].hash, localFS[DlPath].layers))
         THEN DownloadReturns("nil")
         ELSE /\ dpc' = "temp"
              /\ UNCHANGED <<dlTemp, dlDec, dlErr>>
    /\ UNCHANGED <<dlUnchanged, localFS, mutations>>

\* os.CreateTemp(filepath.Dir(localPath), ...)
DownloadCreateTemp ==
    /\ dpc = "temp"
    /\ \E ok \in BOOLEAN :
         IF ok
         THEN /\ dpc' = "fetch"
              /\ dlTemp' = "empty"
              /\ mutations' = mutations \cup {"CreateTemp"}
              /\ UNCHANGED <<dlDec, dlErr>>
         ELSE /\ DownloadReturns("create temp file")
              /\ UNCHANGED mutations
    /\ UNCHANGED <<dlUnchanged, localFS>>

\* downloader.DownloadObject into the temporary file
DownloadObject ==
    /\ dpc = "fetch"
    /\ \E ok \in {callerCtx = "nil" /\ remoteFS[DlPath] # NoObject, FALSE} :
         IF ok
         THEN /\ dpc' = IF encrypt THEN "decrypt" ELSE "rename"
              /\ dlTemp' = "full"
              /\ UNCHANGED <<dlDec, dlErr, mutations>>
         ELSE \E written \in {"empty", "partial"} :
                /\ dpc' = "done"
                /\ dlErr' = "transfer"
                /\ dlTemp' = Removed(written)
                /\ mutations' = mutations \cup {"Remove"}
                /\ UNCHANGED dlDec
    /\ UNCHANGED <<dlUnchanged, localFS>>

\* os.Open of the temporary file, os.CreateTemp, decryptStreamFromReader
DownloadDecrypt ==
    /\ dpc = "decrypt"
    /\ \E outcome \in {"open temp file", "create temp decrypted file", "decryption"}
                        \cup (IF Decryptable(remoteFS[DlPath]) THEN {"ok"} ELSE {}) :
         IF outcome = "ok"
         THEN /\ dpc' = "rename"
              /\ dlDec' = "full"
              /\ UNCHANGED <<dlTemp, dlErr>>
         ELSE /\ dpc' = "done"
              /\ dlErr' = outcome
              /\ dlTemp' = Removed(dlTemp)
              /\ dlDec' = IF outcome = "decryption" THEN "removed" ELSE "none"
    /\ mutations' = mutations \cup {"CreateTemp", "Remove"}
    /\ UNCHANGED <<dlUnchanged, localFS>>

\* the file os.Rename moves: the decrypted temporary file, or the downloaded one
MoveIntoPlace ==
    /\ localFS' = [localFS EXCEPT ![DlPath] = FetchedFile(remoteFS[DlPath])]
    /\ dpc' = "done"
    /\ dlErr' = "nil"
    /\ dlTemp' = IF encrypt THEN Removed(dlTemp) ELSE "moved"
    /\ dlDec' = IF encrypt THEN "moved" ELSE dlDec
    /\ mutations' = mutations \cup {"Rename"}

\* if err := os.Rename(tempPath, localPath); err != nil { ... }
DownloadRename ==
    /\ dpc = "rename"
    /\ \E ok \in BOOLEAN :
         IF ok
         THEN MoveIntoPlace
         ELSE /\ dpc' = "remove"
              /\ UNCHANGED <<localFS, dlTemp, dlDec, dlErr, mutations>>
    /\ UNCHANGED dlUnchanged

\* if removeErr := os.Remove(localPath); removeErr != nil && !os.IsNotExist(removeErr)
DownloadRemoveExisting ==
    /\ dpc = "remove"
    /\ \E ok \in BOOLEAN :
         IF localFS[DlPath] = NoFile
         THEN /\ dpc' = "rename2"
              /\ UNCHANGED <<localFS, dlTemp, dlDec, dlErr, mutations>>
         ELSE IF ok
         THEN /\ dpc' = "rename2"
              /\ localFS' = [localFS EXCEPT ![DlPath] = NoFile]
              /\ mutations' = mutations \cup {"Remove"}
              /\ UNCHANGED <<dlTemp, dlDec, dlErr>>
         ELSE /\ DownloadReturns("replace existing file")
              /\ UNCHANGED <<localFS, mutations>>
    /\ UNCHANGED dlUnchanged

\* if renameErr := os.Rename(tempPath, localPath); renameErr != nil { return ... }
DownloadRenameAgain ==
    /\ dpc = "rename2"
    /\ \E ok \in BOOLEAN :
         IF ok
         THEN MoveIntoPlace
         ELSE /\ DownloadReturns("move file into place")
              /\ UNCHANGED <<localFS, mutations>>
    /\ UNCHANGED dlUnchanged

DownloadNext ==
    \/ DownloadStart
    \/ DownloadSkipCheck
    \/ DownloadCreateTemp
    \/ DownloadObject
    \/ DownloadDecrypt
    \/ DownloadRename
    \/ DownloadRemoveExisting
    \/ DownloadRenameAgain

SpecDownload == DownloadInit /\ [][DownloadNext]_vars

\* ------------------------------------------------------------------------
\* encryptStream and decryptStreamFromReader
\* ------------------------------------------------------------------------
ChunkSize == 2                  \* the read buffer of encryptStream, scaled down
MaxPlainLen == 2 * ChunkSize + 1
SaltSize == 32
NonceSize == 12
CounterSize == 8                \* the bytes of a nonce that NextNonce overwrites

Passwords == {"p1", "p2"}
\* the values rand.Read fills a buffer with
RandVals == {0, 1}
\* the byte strings handed to encryptStream: one of each length, all bytes distinct
Plaintexts == {[i \in 1..n |-> i] : n \in 0..MaxPlainLen}
\* the values a changed byte can take
TamperVals == {0, 1, TagSize, TagSize + 1, TagSize + ChunkSize, TagSize + ChunkSize + 1}

\* A byte of the container.  val is the number the code reads from it (salt, base
\* nonce, length prefix); for a byte written by Seal, val is its distance from the
\* byte Seal wrote (0: untouched), seal says which call wrote it and idx its place.
PlainByte(v) == [val |-> v, seal |-> <<>>, idx |-> 0]

Vals(bytes) == [i \in 1..Len(bytes) |-> bytes[i].val]

RECURSIVE ByteAt(_, _)
\* byte k (0: least significant) of the number n
ByteAt(n, k) == IF k = 0 THEN n % 256 ELSE ByteAt(n \div 256, k - 1)

\* binary.BigEndian.PutUint32 / PutUint64
BigEndianBytes(n, width) == [i \in 1..width |-> ByteAt(n, width - i)]

LittleEndianUint32(b) == ((b[4] * 256 + b[3]) * 256 + b[2]) * 256 + b[1]

\* binary.BigEndian.Uint32
BigEndianUint32(b) == ((b[1] * 256 + b[2]) * 256 + b[3]) * 256 + b[4]

IDKey_IgnoresPassword(pw, salt) == [pw |-> "p1", salt |-> salt]

\* argon2.IDKey: a key that is different for different passwords or salts
IDKey(pw, salt) == [pw |-> pw, salt |-> salt]

NextNonce_CounterFrozen(baseNonce, counter) ==
    SubSeq(baseNonce, 1, NonceSize - CounterSize) \o BigEndianBytes(0, CounterSize)

\* NonceManager.NextNonce: the base nonce with its last 8 bytes replaced by the counter
NextNonce(baseNonce, counter) ==
    SubSeq(baseNonce, 1, NonceSize - CounterSize) \o BigEndianBytes(counter, CounterSize)

\* aead.Seal: the ciphertext of pt followed by the 16-byte tag
Seal(key, nonce, pt) ==
    [i \in 1..(Len(pt) + TagSize) |-> [val |-> 0, seal |-> <<key, nonce, pt>>, idx |-> i]]

\* aead.Open succeeds exactly on the bytes Seal wrote under the same key and nonce
OpenOK(key, nonce, bytes) ==
    /\ Len(bytes) >= TagSize
    /\ bytes[1].seal # <<>>
    /\ bytes = Seal(key, nonce, bytes[1].seal[3])

OpenPlaintext(bytes) == bytes[1].seal[3]

CleanEOF_AnyShortRead(remaining) == remaining < ChunkPrefixSize

\* io.ReadFull returns io.EOF, not io.ErrUnexpectedEOF, only when it read no byte
CleanEOF(remaining) == remaining = 0

cryptoUnchanged == <<poolVars, syncVars, dlVars, upVars, auxVars>>

CryptoInit ==
    /\ PoolIdle
    /\ UploadIdle
    /\ AuxIdle
    /\ maxWorkers = 1
    /\ callerCtx = "nil"
    /\ SyncIdle
    /\ DownloadIdle
    /\ password \in Passwords
    /\ plain \in Plaintexts
    /\ cpc = "start"
    /\ encPos = 0
    /\ container = <<>>
    /\ tamperAt = 0
    /\ decPos = 0
    /\ nonceCounter = 0
    /\ output = <<>>
    /\ decErr = "nil"
    /\ decPassword = password
    /\ fault = "none"
    /\ encErr = "nil"
    /\ encNonces = <<>>
    /\ decNonces = <<>>
    /\ order = <<>>

\* the key a call derives from the global password and the salt of the container
StreamKey(pw) == IDKey(pw, Vals(SubSeq(container, 1, SaltSize)))
\* the base nonce the running call holds
BaseNonce == Vals(SubSeq(container, SaltSize + 1, SaltSize + NonceSize))

\* encryptStream up to its loop: salt and base nonce are drawn and written
EncryptHeader ==
    /\ cpc = "start"
    /\ \E s \in RandVals, b \in RandVals :
        container' = [i \in 1..SaltSize |-> PlainByte(s)]
                        \o [i \in 1..NonceSize |-> PlainByte(b)]
    /\ nonceCounter' = 0
    /\ cpc' = "encrypt"
    /\ UNCHANGED <<password, plain, encPos, tamperAt, order, decPos, output, decErr>>
    /\ UNCHANGED <<decPassword, fault, encErr, encNonces, decNonces>>
    /\ UNCHANGED cryptoUnchanged

\* one round of the loop in which reader.Read returned n > 0 bytes
EncryptChunk ==
    /\ cpc = "encrypt"
    /\ encPos < Len(plain)
    /\ \E n \in 1..Min(ChunkSize, Len(plain) - encPos) :
        LET chunkNonce == NextNonce(BaseNonce, nonceCounter)
            encryptedChunk == Seal(StreamKey(password), chunkNonce,
                                   SubSeq(plain, encPos + 1, encPos + n))
            chunkSizeBytes == BigEndianBytes(Len(encryptedChunk), ChunkPrefixSize)
        IN /\ container' = container
                            \o [i \in 1..ChunkPrefixSize |-> PlainByte(chunkSizeBytes[i])]
                            \o encryptedChunk
           /\ encPos' = encPos + n
    /\ nonceCounter' = nonceCounter + 1
    /\ encNonces' = Append(encNonces, NextNonce(BaseNonce, nonceCounter))
    /\ UNCHANGED <<password, plain, cpc, tamperAt, order, decPos, output, decErr>>
    /\ UNCHANGED <<decPassword, fault, encErr, decNonces>>
    /\ UNCHANGED cryptoUnchanged

\* rand.Read failed, or a Write of the salt or of the base nonce failed after
\* writing k bytes of the header
EncryptHeaderFail ==
    /\ cpc = "start"
    /\ \E s \in RandVals, b \in RandVals, k \in 0..(HeaderSize - 1) :
        /\ container' = SubSeq([i \in 1..SaltSize |-> PlainByte(s)]
                                  \o [i \in 1..NonceSize |-> PlainByte(b)], 1, k)
        /\ encErr' \in IF k = 0
                       THEN {"failed to generate salt", "failed to generate base nonce",
                             "failed to write salt"}
                       ELSE IF k < SaltSize THEN {"failed to write salt"}
                       ELSE {"failed to write base nonce"}
    /\ cpc' = "failed"
    /\ UNCHANGED <<password, plain, encPos, tamperAt, order, decPos, nonceCounter, output, decErr,
                   decPassword, fault, encNonces, decNonces>>
    /\ UNCHANGED cryptoUnchanged

\* reader.Read returned n >= 0 bytes together with an error that is not io.EOF:
\* the bytes read are sealed and written, then the error is returned
EncryptReadFail ==
    /\ cpc = "encrypt"
    /\ \E n \in 0..Min(ChunkSize, Len(plain) - encPos) :
        LET chunkNonce == NextNonce(BaseNonce, nonceCounter)
            encryptedChunk == Seal(StreamKey(password), chunkNonce,
                                   SubSeq(plain, encPos + 1, encPos + n))
            chunkSizeBytes == BigEndianBytes(Len(encryptedChunk), ChunkPrefixSize)
        IN IF n > 0
           THEN /\ container' = container
                                 \o [i \in 1..ChunkPrefixSize |-> PlainByte(chunkSizeBytes[i])]
                                 \o encryptedChunk
                /\ encPos' = encPos + n
                /\ nonceCounter' = nonceCounter + 1
                /\ encNonces' = Append(encNonces, chunkNonce)
           ELSE UNCHANGED <<container, encPos, nonceCounter, encNonces>>
    /\ encErr' = "failed to read from source"
    /\ cpc' = "failed"
    /\ UNCHANGED <<password, plain, tamperAt, order, decPos, output, decErr, decPassword, fault,
                   decNonces>>
    /\ UNCHANGED cryptoUnchanged

\* reader.Read returned n > 0 bytes and one of the two Writes of the round failed
\* after k bytes of the length prefix and the sealed chunk had gone out
EncryptWriteFail ==
    /\ cpc = "encrypt"
    /\ encPos < Len(plain)
    /\ \E n \in 1..Min(ChunkSize, Len(plain) - encPos) :
        LET chunkNonce == NextNonce(BaseNonce, nonceCounter)
            encryptedChunk == Seal(StreamKey(password), chunkNonce,
                                   SubSeq(plain, encPos + 1, encPos + n))
            chunkSizeBytes == BigEndianBytes(Len(encryptedChunk), ChunkPrefixSize)
            record == [i \in 1..ChunkPrefixSize |-> PlainByte(chunkSizeBytes[i])]
                        \o encryptedChunk
        IN \E k \in 0..(Len(record) - 1) :
            /\ container' = container \o SubSeq(record, 1, k)
            /\ encErr' = IF k < ChunkPrefixSize THEN "failed to write chunk size"
                         ELSE "failed to write encrypted chunk"
            /\ encPos' = encPos + n
            /\ encNonces' = Append(encNonces, chunkNonce)
    /\ nonceCounter' = nonceCounter + 1
    /\ cpc' = "failed"
    /\ UNCHANGED <<password, plain, tamperAt, order, decPos, output, decErr, decPassword, fault,
                   decNonces>>
    /\ UNCHANGED cryptoUnchanged

\* reader.Read returned io.EOF: encryptStream returns nil
EncryptEOF ==
    /\ cpc = "encrypt"
    /\ encPos = Len(plain)
    /\ cpc' = "sealed"
    /\ UNCHANGED <<password, plain, encPos, container, tamperAt, order, decPos, nonceCounter,
                   output, decErr>>
    /\ UNCHANGED <<decPassword, fault, encErr, encNonces, decNonces>>
    /\ UNCHANGED cryptoUnchanged

\* somebody changes one byte of the stored container
Tamper ==
    /\ cpc = "sealed"
    /\ fault = "none"
    /\ \E pos \in 1..Len(container), v \in TamperVals :
        /\ v # container[pos].val
        /\ container' = [container EXCEPT ![pos].val = v]
        /\ tamperAt' = pos
    /\ fault' = "tamper"
    /\ UNCHANGED order
    /\ UNCHANGED <<password, plain, cpc, encPos, decPos, nonceCounter, output, decErr>>
    /\ UNCHANGED <<decPassword, encErr, encNonces, decNonces>>
    /\ UNCHANGED cryptoUnchanged

RECURSIVE RecordsFrom(_, _)
\* the chunk records that follow position pos: each a length prefix and its chunk
RecordsFrom(bytes, pos) ==
    IF Len(bytes) - pos < ChunkPrefixSize THEN <<>>
    ELSE LET size == BigEndianUint32(Vals(SubSeq(bytes, pos + 1, pos + ChunkPrefixSize)))
         IN IF size > Len(bytes) - pos - ChunkPrefixSize THEN <<>>
            ELSE <<SubSeq(bytes, pos + 1, pos + ChunkPrefixSize + size)>>
                    \o RecordsFrom(bytes, pos + ChunkPrefixSize + size)

RECURSIVE Concat(_)
Concat(seqs) == IF seqs = <<>> THEN <<>> ELSE Head(seqs) \o Concat(Tail(seqs))

\* the ways to rearrange n records: two records swapped, a copy of one record put
\* in at some place, or a record that is not the last one removed
Rearrangements(n) ==
    ({[k \in 1..n |-> IF k = i THEN j ELSE IF k = j THEN i ELSE k] :
        i \in 1..n, j \in 2..n} \ {[k \in 1..n |-> k]})
    \cup {[k \in 1..(n + 1) |-> IF k < at THEN k ELSE IF k = at THEN i ELSE k - 1] :
            i \in 1..n, at \in 1..(n + 1)}
    \cup {[k \in 1..(n - 1) |-> IF k < i THEN k ELSE k + 1] : i \in 1..(n - 1)}

\* somebody rearranges the chunk records of a stored container of two or more chunks
Rearrange ==
    /\ cpc = "sealed"
    /\ fault = "none"
    /\ LET recs == RecordsFrom(container, HeaderSize)
       IN /\ Len(recs) >= 2
          /\ \E o \in Rearrangements(Len(recs)) :
                /\ container' = SubSeq(container, 1, HeaderSize)
                                  \o Concat([k \in 1..Len(o) |-> recs[o[k]]])
                /\ order' = o
    /\ fault' = "rearrange"
    /\ UNCHANGED <<password, plain, cpc, encPos, tamperAt, decPos, nonceCounter, output,
                   decErr, decPassword, encErr, encNonces, decNonces>>
    /\ UNCHANGED cryptoUnchanged

\* the stored container loses its end: a proper prefix of it is what is read
Truncate ==
    /\ cpc = "sealed"
    /\ fault = "none"
    /\ \E n \in 0..(Len(container) - 1) : container' = SubSeq(container, 1, n)
    /\ fault' = "truncate"
    /\ UNCHANGED <<password, plain, cpc, encPos, tamperAt, order, decPos, nonceCounter, output,
                   decErr, decPassword, encErr, encNonces, decNonces>>
    /\ UNCHANGED cryptoUnchanged

\* the caller sets the global password to another passphrase before decrypting
SetPassword ==
    /\ cpc = "sealed"
    /\ fault = "none"
    /\ \E pw \in Passwords \ {password} : decPassword' = pw
    /\ fault' = "password"
    /\ UNCHANGED <<password, plain, cpc, encPos, container, tamperAt, order, decPos, nonceCounter,
                   output, decErr, encErr, encNonces, decNonces>>
    /\ UNCHANGED cryptoUnchanged

\* decryptStreamFromReader up to its loop: the 44-byte header is read
DecryptHeader ==
    /\ cpc = "sealed"
    /\ IF Len(container) < HeaderSize
       THEN /\ decErr' = "failed to read encryption header"
            /\ cpc' = "done"
            /\ UNCHANGED decPos
       ELSE /\ decPos' = HeaderSize
            /\ cpc' = "chunks"
            /\ UNCHANGED decErr
    /\ nonceCounter' = 0
    /\ UNCHANGED <<password, plain, encPos, container, tamperAt, order, output>>
    /\ UNCHANGED <<decPassword, fault, encErr, encNonces, decNonces>>
    /\ UNCHANGED cryptoUnchanged

\* one round of the loop of decryptStreamFromReader
DecryptChunk ==
    /\ cpc = "chunks"
    /\ LET remaining == Len(container) - decPos
           chunkSizeBytes == Vals(SubSeq(container, decPos + 1, decPos + ChunkPrefixSize))
           chunkSize == BigEndianUint32(chunkSizeBytes)
           from == decPos + ChunkPrefixSize
           encryptedChunk == SubSeq(container, from + 1, from + chunkSize)
           chunkNonce == NextNonce(BaseNonce, nonceCounter)
       IN IF CleanEOF(remaining)
          THEN \* io.EOF on the length prefix: normal end of stream
               /\ cpc' = "done"
               /\ UNCHANGED <<decPos, nonceCounter, output, decErr, decNonces>>
          ELSE IF remaining < ChunkPrefixSize
          THEN /\ decErr' = "failed to read chunk size"
               /\ cpc' = "done"
               /\ UNCHANGED <<decPos, nonceCounter, output, decNonces>>
          ELSE IF chunkSize > remaining - ChunkPrefixSize
          THEN /\ decErr' = "failed to read encrypted chunk"
               /\ cpc' = "done"
               /\ UNCHANGED <<decPos, nonceCounter, output, decNonces>>
          ELSE IF ~OpenOK(StreamKey(decPassword), chunkNonce, encryptedChunk)
          THEN /\ decErr' = "decryption failed"
               /\ cpc' = "done"
               /\ nonceCounter' = nonceCounter + 1
               /\ decNonces' = Append(decNonces, chunkNonce)
               /\ UNCHANGED <<decPos, output>>
          ELSE /\ output' = output \o OpenPlaintext(encryptedChunk)
               /\ decPos' = from + chunkSize
               /\ nonceCounter' = nonceCounter + 1
               /\ decNonces' = Append(decNonces, chunkNonce)
               /\ UNCHANGED <<cpc, decErr>>
    /\ UNCHANGED <<password, plain, encPos, container, tamperAt, order>>
    /\ UNCHANGED <<decPassword, fault, encErr, encNonces>>
    /\ UNCHANGED cryptoUnchanged

CryptoNext ==
    \/ EncryptHeader
    \/ EncryptChunk
    \/ EncryptEOF
    \/ EncryptHeaderFail
    \/ EncryptReadFail
    \/ EncryptWriteFail
    \/ Tamper
    \/ SetPassword
    \/ Truncate
    \/ Rearrange
    \/ DecryptHeader
    \/ DecryptChunk

SpecCrypto == CryptoInit /\ [][CryptoNext]_vars

\* ------------------------------------------------------------------------
\* Properties of the encrypted stream
\* ------------------------------------------------------------------------
\* C19: decrypting what encryptStream wrote for a byte string, with the same
\* passphrase and no byte changed, returns no error and writes exactly that byte
\* string, whatever its length relative to the chunk size.
C19_RoundTrip ==
    (cpc = "done" /\ fault = "none") => (decErr = "nil" /\ output = plain)

\* a byte string of two full chunks and one more byte went through both calls
C19_Witness ==
    /\ cpc = "done"
    /\ fault = "none"
    /\ Len(plain) = MaxPlainLen
    /\ Len(container) = HeaderSize + 3 * (ChunkPrefixSize + TagSize) + MaxPlainLen
    /\ nonceCounter = 3
    /\ decErr = "nil"
    /\ output = plain

\* C21: decrypting the container of a non-empty byte string under another
\* passphrase than the one it was encrypted with returns the "decryption failed"
\* error and writes no plaintext.
C21_WrongPasswordFails ==
    (cpc = "done" /\ fault = "password" /\ plain # <<>>)
        => /\ decErr = "decryption failed"
           /\ output = <<>>

\* a three-chunk container was rejected at its first chunk under the other passphrase
C21_Witness ==
    /\ cpc = "done"
    /\ fault = "password"
    /\ decPassword # password
    /\ Len(plain) = MaxPlainLen
    /\ Len(encNonces) = 3
    /\ Len(decNonces) = 1
    /\ decErr = "decryption failed"
    /\ output = <<>>

\* C22: decrypting a proper prefix of the container of a non-empty byte string
\* returns an error, wherever the cut falls.
C22_TruncationDetected ==
    (cpc = "done" /\ fault = "truncate" /\ plain # <<>>) => decErr # "nil"

\* the chunk length the prefix at the read position announces
AnnouncedSize ==
    BigEndianUint32(Vals(SubSeq(container, decPos + 1, decPos + ChunkPrefixSize)))

\* C23: a finished decryption has returned the header error exactly when fewer than
\* 44 bytes were available; it has returned nil only with the whole input consumed,
\* that is when no byte of a next length prefix was left; the length-prefix error
\* means 1 to 3 bytes were left, and the chunk error means that fewer bytes were
\* left after the prefix than it announces; and those short inputs give no other result.
C23_ShortReads ==
    cpc = "done" =>
        LET left == Len(container) - decPos
        IN /\ (decErr = "failed to read encryption header") <=> (Len(container) < HeaderSize)
           /\ decErr = "nil" => (Len(container) >= HeaderSize /\ left = 0)
           /\ (decErr = "failed to read chunk size") <=> (decPos >= HeaderSize /\ left \in 1..3)
           /\ (decErr = "failed to read encrypted chunk")
                <=> (decPos >= HeaderSize /\ left >= ChunkPrefixSize
                        /\ AnnouncedSize > left - ChunkPrefixSize)

\* the input ended inside the length prefix of a later chunk
C23_Witness ==
    /\ cpc = "done"
    /\ fault = "truncate"
    /\ output # <<>>
    /\ Len(container) - decPos \in 1..3
    /\ decErr = "failed to read chunk size"

RECURSIVE BigEndianUint(_)
\* the number a big-endian byte string stands for
BigEndianUint(b) ==
    IF b = <<>> THEN 0 ELSE BigEndianUint(SubSeq(b, 1, Len(b) - 1)) * 256 + b[Len(b)]

\* the nonces found in the sealed bytes of the container
SealedNonces == {container[k].seal[2] : k \in {j \in 1..Len(container) : container[j].seal # <<>>}}

\* C24: in one encryptStream call the counter is the number of chunks emitted so far;
\* the i-th chunk is sealed with the nonce whose first 4 bytes are those of the base
\* nonce and whose last 8 bytes are i-1 in big-endian; no two chunks share a nonce;
\* and, when encryptStream returned nil, the decryption of the untouched container
\* derives the same i-th nonce.
C24_NonceSequence ==
    /\ cpc = "encrypt" => nonceCounter = Len(encNonces)
    /\ \A i, j \in 1..Len(encNonces) : i # j => encNonces[i] # encNonces[j]
    /\ \A i \in 1..Len(encNonces) :
            /\ Len(encNonces[i]) = NonceSize
            /\ BigEndianUint(SubSeq(encNonces[i], NonceSize - CounterSize + 1, NonceSize)) = i - 1
    /\ (fault = "none" /\ cpc # "failed") =>
            /\ SealedNonces = {encNonces[i] : i \in 1..Len(encNonces)}
            /\ \A i \in 1..Len(encNonces) :
                    SubSeq(encNonces[i], 1, NonceSize - CounterSize)
                        = SubSeq(BaseNonce, 1, NonceSize - CounterSize)
            /\ Len(decNonces) <= Len(encNonces)
            /\ \A i \in 1..Len(decNonces) : decNonces[i] = encNonces[i]

\* three chunks were sealed and opened with the same three nonces
C24_Witness ==
    /\ cpc = "done"
    /\ fault = "none"
    /\ Len(encNonces) = 3
    /\ decNonces = encNonces
    /\ decErr = "nil"

RECURSIVE WholeRecords(_, _)
\* the bytes after position pos are a sequence of complete records, each a length
\* prefix followed by as many bytes as it announces
WholeRecords(bytes, pos) ==
    IF pos = Len(bytes) THEN TRUE
    ELSE IF Len(bytes) - pos < ChunkPrefixSize THEN FALSE
    ELSE LET size == BigEndianUint32(Vals(SubSeq(bytes, pos + 1, pos + ChunkPrefixSize)))
         IN /\ size <= Len(bytes) - pos - ChunkPrefixSize
            /\ WholeRecords(bytes, pos + ChunkPrefixSize + size)

\* C25: when encryptStream has returned an error after writing the header, what it
\* wrote ends on a complete record: no length prefix stands without its whole chunk.
C25_FailureLeavesWholeRecords ==
    (cpc = "failed" /\ Len(container) >= HeaderSize) => WholeRecords(container, HeaderSize)

\* the first place of a rearranged container that holds another record than the
\* one written there
FirstMoved == CHOOSE k \in 1..Len(order) :
                 /\ order[k] # k
                 /\ \A h \in 1..(k - 1) : order[h] = h

\* C40: after two chunk records were swapped, a record was duplicated, or a record
\* other than the last was removed, decryption returns the "decryption failed" error,
\* and does so at the first record that is not in its written place: the records
\* before it were opened and their plaintext, a prefix of the original, was written.
C40_RearrangementDetected ==
    fault = "rearrange" =>
        /\ decErr \in {"nil", "decryption failed"}
        /\ cpc = "done" =>
              /\ decErr = "decryption failed"
              /\ nonceCounter = FirstMoved
              /\ Len(decNonces) = FirstMoved
              /\ decPos = HeaderSize + Len(Concat(SubSeq(RecordsFrom(container, HeaderSize),
                                                        1, FirstMoved - 1)))
              /\ Len(output) = decPos - HeaderSize
                                 - (FirstMoved - 1) * (ChunkPrefixSize + TagSize)
              /\ output = SubSeq(plain, 1, Len(output))

\* the second and third of three records were swapped: the first was opened, the
\* second failed authentication
C40_Witness ==
    /\ cpc = "done"
    /\ fault = "rearrange"
    /\ order = <<1, 3, 2>>
    /\ decErr = "decryption failed"
    /\ Len(decNonces) = 2
    /\ output # <<>>
    /\ output # plain

\* C20: once one byte of the container was changed, decryption returns an error;
\* and a decryption that returns no error has written the original plaintext.
C20_TamperDetected ==
    /\ (cpc = "done" /\ tamperAt # 0) => decErr # "nil"
    /\ (cpc = "done" /\ decErr = "nil") => output = plain

\* ------------------------------------------------------------------------
\* The encrypted upload of uploadFileWithParams
\* ------------------------------------------------------------------------
MaxUnits == 3

upUnchanged == <<poolVars, syncVars, dlVars, cryptoVars, auxVars>>

\* the state after the goroutine was started and UploadObject was called
UploadInit ==
    /\ PoolIdle
    /\ maxWorkers = 1
    /\ callerCtx = "nil"
    /\ SyncIdle
    /\ DownloadIdle
    /\ CryptoIdle
    /\ AuxIdle
    /\ upTotal \in 1..MaxUnits
    /\ upPc = "upload"
    /\ encPc = "encrypt"
    /\ encWritten = 0
    /\ pipePending = FALSE
    /\ pipeWriter = "open"
    /\ pipeReader = "open"
    /\ upReceived = 0
    /\ encResult = "none"
    /\ upErrChan = <<>>
    /\ uploadErr = "none"
    /\ upReturn = "none"
    /\ keyHolds = "old"

ReturnAfterUpload_IgnoresResult(res) == "nil"

\* what the call returns after a successful UploadObject, given the encryption result
ReturnAfterUpload(res) == IF res = "nil" THEN "nil" ELSE "encryption failed"

\* what S3 stores when UploadObject has read its body to io.EOF
StoredObject(received, total) == IF received = total THEN "complete" ELSE "incomplete"

\* encryptStream calls pipeWriter.Write: it blocks while the reader is open, and
\* fails at once when the reader was closed
EncWrite ==
    /\ encPc = "encrypt"
    /\ encWritten < upTotal
    /\ IF pipeReader = "open"
       THEN /\ pipePending' = TRUE
            /\ encPc' = "writing"
            /\ UNCHANGED encResult
       ELSE /\ encResult' = "write error"
            /\ encPc' = "send"
            /\ UNCHANGED pipePending
    /\ UNCHANGED <<upTotal, upPc, encWritten, pipeWriter, pipeReader, upReceived, upErrChan,
                   uploadErr, upReturn, keyHolds>>
    /\ UNCHANGED upUnchanged

\* the blocked Write returns: its bytes were read, or the reader was closed
EncWriteReturn ==
    /\ encPc = "writing"
    /\ ~(pipePending /\ pipeReader = "open")
    /\ IF ~pipePending
       THEN /\ encWritten' = encWritten + 1
            /\ encPc' = "encrypt"
            /\ UNCHANGED <<encResult, pipePending>>
       ELSE /\ encResult' = "write error"
            /\ encPc' = "send"
            /\ pipePending' = FALSE
            /\ UNCHANGED encWritten
    /\ UNCHANGED <<upTotal, upPc, pipeWriter, pipeReader, upReceived, upErrChan, uploadErr,
                   upReturn, keyHolds>>
    /\ UNCHANGED upUnchanged

\* encryptStream fails on its own (reading the file, drawing the salt) before it
\* has written everything
EncReadFail ==
    /\ encPc = "encrypt"
    /\ encWritten < upTotal
    /\ encResult' = "read error"
    /\ encPc' = "send"
    /\ UNCHANGED <<upTotal, upPc, encWritten, pipePending, pipeWriter, pipeReader, upReceived,
                   upErrChan, uploadErr, upReturn, keyHolds>>
    /\ UNCHANGED upUnchanged

\* encryptStream has written everything and returns nil
EncFinish ==
    /\ encPc = "encrypt"
    /\ encWritten = upTotal
    /\ encResult' = "nil"
    /\ encPc' = "send"
    /\ UNCHANGED <<upTotal, upPc, encWritten, pipePending, pipeWriter, pipeReader, upReceived,
                   upErrChan, uploadErr, upReturn, keyHolds>>
    /\ UNCHANGED upUnchanged

\* errChan <- encryptStream(pipeWriter, file)
EncSend ==
    /\ encPc = "send"
    /\ upErrChan' = Append(upErrChan, encResult)
    /\ encPc' = "close"
    /\ UNCHANGED <<upTotal, upPc, encWritten, pipePending, pipeWriter, pipeReader, upReceived,
                   encResult, uploadErr, upReturn, keyHolds>>
    /\ UNCHANGED upUnchanged

\* the deferred closeWithLog(pipeWriter): a plain Close, whatever encryptStream returned
EncClose ==
    /\ encPc = "close"
    /\ pipeWriter' = "closed"
    /\ encPc' = "exited"
    /\ UNCHANGED <<upTotal, upPc, encWritten, pipePending, pipeReader, upReceived, encResult,
                   upErrChan, uploadErr, upReturn, keyHolds>>
    /\ UNCHANGED upUnchanged

\* UploadObject reads the bytes of the pending Write
UploadRead ==
    /\ upPc = "upload"
    /\ pipePending
    /\ pipePending' = FALSE
    /\ upReceived' = upReceived + 1
    /\ UNCHANGED <<upTotal, upPc, encPc, encWritten, pipeWriter, pipeReader, encResult,
                   upErrChan, uploadErr, upReturn, keyHolds>>
    /\ UNCHANGED upUnchanged

\* UploadObject reads io.EOF from the pipe and stores what it has read
UploadEOF ==
    /\ upPc = "upload"
    /\ ~pipePending
    /\ pipeWriter = "closed"
    /\ keyHolds' = StoredObject(upReceived, upTotal)
    /\ uploadErr' = "nil"
    /\ upPc' = "closeOk"
    /\ UNCHANGED <<upTotal, encPc, encWritten, pipePending, pipeWriter, pipeReader, upReceived,
                   encResult, upErrChan, upReturn>>
    /\ UNCHANGED upUnchanged

\* UploadObject fails (network, cancelled context): nothing is stored
UploadFail ==
    /\ upPc = "upload"
    /\ uploadErr' = "upload error"
    /\ upPc' = "closeErr"
    /\ UNCHANGED <<upTotal, encPc, encWritten, pipePending, pipeWriter, pipeReader, upReceived,
                   encResult, upErrChan, upReturn, keyHolds>>
    /\ UNCHANGED upUnchanged

\* pipeReader.CloseWithError(uploadErr)
CloseReaderWithError ==
    /\ upPc = "closeErr"
    /\ pipeReader' = "closedWithError"
    /\ upPc' = "waitErr"
    /\ UNCHANGED <<upTotal, encPc, encWritten, pipePending, pipeWriter, upReceived, encResult,
                   upErrChan, uploadErr, upReturn, keyHolds>>
    /\ UNCHANGED upUnchanged

\* closeWithLog(pipeReader, "pipe reader")
CloseReader ==
    /\ upPc = "closeOk"
    /\ pipeReader' = "closed"
    /\ upPc' = "waitOk"
    /\ UNCHANGED <<upTotal, encPc, encWritten, pipePending, pipeWriter, upReceived, encResult,
                   upErrChan, uploadErr, upReturn, keyHolds>>
    /\ UNCHANGED upUnchanged

\* <-errChan; return uploadErr
ReceiveAfterFailure ==
    /\ upPc = "waitErr"
    /\ upErrChan # <<>>
    /\ upErrChan' = Tail(upErrChan)
    /\ upReturn' = uploadErr
    /\ upPc' = "done"
    /\ UNCHANGED <<upTotal, encPc, encWritten, pipePending, pipeWriter, pipeReader, upReceived,
                   encResult, uploadErr, keyHolds>>
    /\ UNCHANGED upUnchanged

\* if encErr := <-errChan; encErr != nil { return "encryption failed" }; return nil
ReceiveAfterSuccess ==
    /\ upPc = "waitOk"
    /\ upErrChan # <<>>
    /\ upErrChan' = Tail(upErrChan)
    /\ upReturn' = ReturnAfterUpload(Head(upErrChan))
    /\ upPc' = "done"
    /\ UNCHANGED <<upTotal, encPc, encWritten, pipePending, pipeWriter, pipeReader, upReceived,
                   encResult, uploadErr, keyHolds>>
    /\ UNCHANGED upUnchanged

UploadNext ==
    \/ EncWrite
    \/ EncWriteReturn
    \/ EncReadFail
    \/ EncFinish
    \/ EncSend
    \/ EncClose
    \/ UploadRead
    \/ UploadEOF
    \/ UploadFail
    \/ CloseReaderWithError
    \/ CloseReader
    \/ ReceiveAfterFailure
    \/ ReceiveAfterSuccess

SpecUpload == UploadInit /\ [][UploadNext]_vars

\* ------------------------------------------------------------------------
\* Properties of the encrypted upload
\* ------------------------------------------------------------------------
\* C26: when the upload has returned an error, the destination key holds what it
\* held before the call or a complete object, never an incomplete one.
C26_NoIncompleteObject ==
    (upPc = "done" /\ upReturn # "nil") => keyHolds \in {"old", "complete"}

\* C27 as written: when the encrypted upload has returned, the result of the
\* encryption was received, success was reported only for a nil result, every
\* encryption error was reported, and the encryption goroutine has exited.
C27_GoroutineExitedAtReturn ==
    upPc = "done" =>
        /\ encResult # "none"
        /\ upErrChan = <<>>
        /\ upReturn = "nil" => encResult = "nil"
        /\ encResult # "nil" => upReturn # "nil"
        /\ encPc = "exited"

\* C27: when the encrypted upload has returned, encryptStream had returned and its
\* result was received; success was reported only for a nil result and with the
\* goroutine exited; every encryption error led to an error return; and on the
\* failure path the goroutine has nothing left to do but its deferred pipe close.
C27_EncryptionAwaited ==
    upPc = "done" =>
        /\ encResult # "none"
        /\ upErrChan = <<>>
        /\ upReturn = "nil" => (encResult = "nil" /\ encPc = "exited")
        /\ encResult # "nil" => upReturn # "nil"
        /\ encPc \in {"close", "exited"}
        /\ ~pipePending

\* the upload failed while the encryptor was blocked in a Write; the call returned
\* after receiving the encryptor's write error, before the encryptor closed its end
C27_Witness ==
    /\ upPc = "done"
    /\ upReturn = "upload error"
    /\ encResult = "write error"
    /\ encWritten < upReceived + 1
    /\ encPc = "close"
    /\ pipeWriter = "open"

\* C28: once the upload has failed and the call has returned, the encryptor is not
\* blocked on the pipe and has returned; and once the encryptor has failed on its
\* own, UploadObject does not return success.
C28_FailurePropagatesBothWays ==
    /\ (upPc = "done" /\ uploadErr = "upload error")
            => (encPc \in {"close", "exited"} /\ encResult # "none")
    /\ (encResult = "read error" /\ uploadErr # "none") => uploadErr = "upload error"

\* ------------------------------------------------------------------------
\* retryOperation
\* ------------------------------------------------------------------------
MaxAttempts == 3

\* the errors an attempt can return
OpErrors == {"e1", "e2", "e3"}

\* every other part of the program at rest
OthersIdle ==
    /\ PoolIdle
    /\ maxWorkers = 1
    /\ callerCtx = "nil"
    /\ SyncIdle
    /\ DownloadIdle
    /\ CryptoIdle
    /\ UploadIdle

retryUnchanged == <<poolVars, syncVars, dlVars, cryptoVars, upVars, dcVars, rpVars, clVars>>

RetryInit ==
    /\ OthersIdle
    /\ DirCopyIdle
    /\ ReportIdle
    /\ ClientIdle
    /\ retryMax \in 0..MaxAttempts
    /\ retryPc = "loop"
    /\ retryAttempts = <<>>
    /\ retryResult = [text |-> "none", attempts |-> 0, last |-> "nil", unwrap |-> "none"]

LastErr_First(attempts) == IF attempts = <<>> THEN "nil" ELSE attempts[1]

\* lastErr when the loop is left: what the latest call of operation() returned
LastErr(attempts) == IF attempts = <<>> THEN "nil" ELSE attempts[Len(attempts)]

\* fmt.Errorf("failed to %s after %d attempts: %v", ...): a new error whose text
\* holds the text of lastErr; %v keeps no link that errors.Unwrap could follow
Errorf(maxAttempts, lastErr) ==
    [text |-> "failed after attempts", attempts |-> maxAttempts, last |-> lastErr,
     unwrap |-> "none"]

\* the nil error
RetryNil == [text |-> "nil", attempts |-> 0, last |-> "nil", unwrap |-> "none"]

\* one round of the loop: lastErr = operation(); if lastErr == nil { return nil }
RetryAttempt ==
    /\ retryPc = "loop"
    /\ Len(retryAttempts) < retryMax
    /\ \E out \in {"nil"} \cup OpErrors :
        /\ retryAttempts' = Append(retryAttempts, out)
        /\ IF out = "nil"
           THEN retryResult' = RetryNil /\ retryPc' = "done"
           ELSE UNCHANGED <<retryResult, retryPc>>
    /\ UNCHANGED <<retryMax>>
    /\ UNCHANGED retryUnchanged

\* the loop is over: return fmt.Errorf(...)
RetryExhausted ==
    /\ retryPc = "loop"
    /\ Len(retryAttempts) >= retryMax
    /\ retryResult' = Errorf(retryMax, LastErr(retryAttempts))
    /\ retryPc' = "done"
    /\ UNCHANGED <<retryMax, retryAttempts>>
    /\ UNCHANGED retryUnchanged

RetryNext ==
    \/ RetryAttempt
    \/ RetryExhausted

SpecRetry == RetryInit /\ [][RetryNext]_vars

DcDirNames == {"dest", "sub"}

\* filepath.Dir(task.localPath): the last task lies in the subdirectory
DirOf(t) == IF t = MaxTasks THEN "sub" ELSE "dest"

\* os.MkdirAll(d): d exists afterwards, and so does every parent of d
MkdirAll(dirs, d) == dirs \cup (IF d = "sub" THEN {"dest", "sub"} ELSE {"dest"})

\* what the per-file closure returns for the result of uploadFile / downloadFile
ClosureResult(transferErr) ==
    IF transferErr = "nil" THEN "nil" ELSE "failed to transfer"

\* the worker goroutine drops an error that is context.Canceled once workerCtx is done
DcDropped(transferErr, cancelled) == transferErr = "canceled" /\ cancelled

\* worker goroutines that have exited: each one whose closure returned an error
DcExited == {t \in DcTasks : dcReturned[t] \notin {"none", "nil"}}

dcUnchanged == <<poolVars, syncVars, dlVars, cryptoVars, upVars, retryVars, rpVars, clVars>>

DirCopyInit ==
    /\ PoolIdle
    /\ maxWorkers \in 1..MaxWorkers
    /\ callerCtx = "nil"
    /\ SyncIdle
    /\ DownloadIdle
    /\ CryptoIdle
    /\ UploadIdle
    /\ RetryIdle
    /\ ReportIdle
    /\ ClientIdle
    /\ dcKind \in {"upload", "download"}
    /\ dcDryRun \in BOOLEAN
    /\ dcListed \in SUBSET DcTasks
    /\ dcDirs \in {{}, {"dest"}, {"dest", "sub"}}
    /\ dcDirs0 = dcDirs
    /\ dcStored = {}
    /\ dcPending = dcListed
    /\ dcRunning = {}
    /\ dcAttempted = {}
    /\ dcReturned = [t \in DcTasks |-> "none"]
    /\ dcCancelled = FALSE
    /\ dcCaptured = "none"
    /\ dcPc = "start"
    /\ dcErr = "none"

\* downloadFromS3: os.MkdirAll(destination), then runWorkerPoolStream;
\* uploadDirectory: runWorkerPoolStream at once
DcBegin ==
    /\ dcPc = "start"
    /\ \E mkdirOk \in BOOLEAN :
        IF dcKind = "download" /\ ~mkdirOk
        THEN /\ dcPc' = "done"
             /\ dcErr' = "failed to create destination directory"
             /\ UNCHANGED dcDirs
        ELSE /\ dcPc' = "pool"
             /\ dcDirs' = IF dcKind = "download" THEN MkdirAll(dcDirs, "dest") ELSE dcDirs
             /\ UNCHANGED dcErr
    /\ UNCHANGED <<dcKind, dcDryRun, dcListed, dcDirs0, dcStored, dcPending, dcRunning,
                   dcAttempted, dcReturned, dcCancelled, dcCaptured>>
    /\ UNCHANGED dcUnchanged

\* the producer yields a task and a worker goroutine that is still alive takes it
DcTake ==
    /\ dcPc = "pool"
    /\ Cardinality(dcRunning) + Cardinality(DcExited) < maxWorkers
    /\ \E t \in dcPending :
        /\ dcPending' = dcPending \ {t}
        /\ dcRunning' = dcRunning \cup {t}
    /\ UNCHANGED <<dcKind, dcDryRun, dcListed, dcDirs, dcDirs0, dcStored, dcAttempted,
                   dcReturned, dcCancelled, dcCaptured, dcPc, dcErr>>
    /\ UNCHANGED dcUnchanged

\* the per-file closure runs for one task, and the worker goroutine handles its result:
\* download: MkdirAll(filepath.Dir(localPath)), then downloadFile; upload: uploadFile.
\* uploadFileWithParams and downloadFileWithParams return nil at once under dryRun.
DcClosure ==
    /\ dcPc = "pool"
    /\ \E t \in dcRunning :
       \E mkdirOk \in BOOLEAN :
       \E transfer \in {"nil", "error"} \cup (IF dcCancelled THEN {"canceled"} ELSE {}) :
        LET mkdirFails == dcKind = "download" /\ ~mkdirOk
            transferErr == IF mkdirFails THEN "error"
                           ELSE IF dcDryRun THEN "nil"
                           ELSE transfer
            ret == ClosureResult(transferErr)
        IN  /\ dcDirs' = IF dcKind = "download" /\ mkdirOk
                         THEN MkdirAll(dcDirs, DirOf(t)) ELSE dcDirs
            /\ dcStored' = IF ~mkdirFails /\ ~dcDryRun /\ transfer = "nil"
                           THEN dcStored \cup {t} ELSE dcStored
            /\ dcRunning' = dcRunning \ {t}
            /\ dcAttempted' = dcAttempted \cup {t}
            /\ dcReturned' = [dcReturned EXCEPT ![t] = ret]
            /\ IF ret = "nil" \/ DcDropped(transferErr, dcCancelled)
               THEN UNCHANGED <<dcCancelled, dcCaptured>>
               ELSE /\ dcCancelled' = TRUE
                    /\ dcCaptured' = IF dcCaptured = "none" THEN ret ELSE dcCaptured
    /\ UNCHANGED <<dcKind, dcDryRun, dcListed, dcDirs0, dcPending, dcPc, dcErr>>
    /\ UNCHANGED dcUnchanged

\* runWorkerPoolStream returns: every worker goroutine and the producer are over
DcFinish ==
    /\ dcPc = "pool"
    /\ dcRunning = {}
    /\ dcPending = {} \/ dcCancelled
    /\ dcPc' = "done"
    /\ dcErr' = IF dcCaptured # "none" THEN dcCaptured
                ELSE IF dcKind = "download" /\ dcListed = {} THEN "no objects found"
                ELSE "nil"
    /\ UNCHANGED <<dcKind, dcDryRun, dcListed, dcDirs, dcDirs0, dcStored, dcPending,
                   dcRunning, dcAttempted, dcReturned, dcCancelled, dcCaptured>>
    /\ UNCHANGED dcUnchanged

DirCopyNext ==
    \/ DcBegin
    \/ DcTake
    \/ DcClosure
    \/ DcFinish

SpecDirCopy == DirCopyInit /\ [][DirCopyNext]_vars

\* C32: under dry-run a recursive download of a prefix that holds objects creates no
\* directory and no file, downloads nothing, and returns success.
C32_DryRunDownloadChangesNothing ==
    (dcKind = "download" /\ dcDryRun /\ dcListed # {}) =>
        /\ dcDirs = dcDirs0
        /\ dcStored = {}
        /\ dcPc = "done" => dcErr = "nil"

\* C33: in a recursive copy the per-file closure returns nil to the executor even when
\* the file's transfer failed, and when the copy returns every listed file has been
\* attempted, whichever of them failed.
C33_FileFailureIsCaught ==
    /\ \A t \in DcTasks : dcReturned[t] \in {"none", "nil"}
    /\ (dcPc = "done" /\ dcErr # "failed to create destination directory")
          => dcAttempted = dcListed

\* C34: a sync called with a worker count below 1 performs no listing, no metadata
\* lookup, no transfer and no delete, and returns the configuration error, whatever
\* the two trees hold.
C34_BadWorkerCountFailsFirst ==
    maxWorkers < 1 =>
        /\ spc \in {"start", "done"}
        /\ verdict = [p \in Paths |-> "none"]
        /\ mutations = {}
        /\ BagIsEmpty(uploaded) /\ BagIsEmpty(downloaded) /\ BagIsEmpty(deleted)
        /\ spc = "done" => syncErr = ConfigErr

\* ------------------------------------------------------------------------
\* SyncResult: the appends of uploadFiles / downloadFiles and of the delete loops
\* ------------------------------------------------------------------------
rpUnchanged == <<poolVars, syncVars, dlVars, cryptoVars, upVars, retryVars, dcVars, clVars>>

RpWorkers == 1..MaxWorkers

ReportInit ==
    /\ PoolIdle
    /\ maxWorkers = MaxWorkers
    /\ callerCtx = "nil"
    /\ SyncIdle
    /\ DownloadIdle
    /\ CryptoIdle
    /\ UploadIdle
    /\ RetryIdle
    /\ DirCopyIdle
    /\ ClientIdle
    /\ rpDir \in {"up", "down"}
    /\ rpPending \in SUBSET (1..SyncPaths)
    /\ rpDelPending \in SUBSET ((SyncPaths + 1)..(2 * SyncPaths))
    /\ rpPc = [g \in Goroutines |-> IF g = 0 THEN "wait" ELSE "take"]
    /\ rpEntry = [g \in Goroutines |-> NoEntry]
    /\ rpSlice = [g \in Goroutines |-> <<>>]
    /\ rpMutex = -1
    /\ rpLists = [l \in ListNames |-> <<>>]
    /\ rpAppends = 0

\* the list a finished transfer is recorded in
TransferList(ok) == IF ~ok THEN "Errors" ELSE IF rpDir = "up" THEN "Uploaded" ELSE "Downloaded"

\* the list a finished delete is recorded in
DeleteList(ok) == IF ok THEN "Deleted" ELSE "Errors"

TryLock_AlwaysGranted(holder) == TRUE

\* mutex.Lock() returns only while nobody holds the mutex
TryLock(holder) == holder = -1

\* a goroutine is inside append(): it has read the slice and not yet stored the result
InAppend(g) == rpPc[g] = "write"

\* a worker goroutine receives a task and runs the transfer (or skips it under dryRun)
RpTake(w) ==
    /\ rpPc[w] = "take"
    /\ \E t \in rpPending : \E ok \in BOOLEAN :
        /\ rpPending' = rpPending \ {t}
        /\ rpEntry' = [rpEntry EXCEPT ![w] = [list |-> TransferList(ok), path |-> t]]
    /\ rpPc' = [rpPc EXCEPT ![w] = "lock"]
    /\ UNCHANGED <<rpDir, rpDelPending, rpSlice, rpMutex, rpLists, rpAppends>>
    /\ UNCHANGED rpUnchanged

\* taskChan is closed and empty: the worker goroutine returns
RpWorkerExit(w) ==
    /\ rpPc[w] = "take"
    /\ rpPending = {}
    /\ rpPc' = [rpPc EXCEPT ![w] = "exited"]
    /\ UNCHANGED <<rpDir, rpPending, rpDelPending, rpEntry, rpSlice, rpMutex, rpLists,
                   rpAppends>>
    /\ UNCHANGED rpUnchanged

\* mutex.Lock()
RpLock(w) ==
    /\ rpPc[w] = "lock"
    /\ TryLock(rpMutex)
    /\ rpMutex' = w
    /\ rpPc' = [rpPc EXCEPT ![w] = "read"]
    /\ UNCHANGED <<rpDir, rpPending, rpDelPending, rpEntry, rpSlice, rpLists, rpAppends>>
    /\ UNCHANGED rpUnchanged

\* append(result.X, entry), first half: the slice is read
RpRead(g) ==
    /\ rpPc[g] = "read"
    /\ rpSlice' = [rpSlice EXCEPT ![g] = rpLists[rpEntry[g].list]]
    /\ rpPc' = [rpPc EXCEPT ![g] = "write"]
    /\ UNCHANGED <<rpDir, rpPending, rpDelPending, rpEntry, rpMutex, rpLists, rpAppends>>
    /\ UNCHANGED rpUnchanged

\* result.X = append(...), second half: the longer slice is stored
RpWrite(g) ==
    /\ rpPc[g] = "write"
    /\ rpLists' = [rpLists EXCEPT ![rpEntry[g].list] = Append(rpSlice[g], rpEntry[g].path)]
    /\ rpAppends' = rpAppends + 1
    /\ rpPc' = [rpPc EXCEPT ![g] = IF g = 0 THEN "loop" ELSE "unlock"]
    /\ UNCHANGED <<rpDir, rpPending, rpDelPending, rpEntry, rpSlice, rpMutex>>
    /\ UNCHANGED rpUnchanged

\* mutex.Unlock(); return nil
RpUnlock(w) ==
    /\ rpPc[w] = "unlock"
    /\ rpMutex' = -1
    /\ rpPc' = [rpPc EXCEPT ![w] = "take"]
    /\ UNCHANGED <<rpDir, rpPending, rpDelPending, rpEntry, rpSlice, rpLists, rpAppends>>
    /\ UNCHANGED rpUnchanged

\* wg.Wait() is over: runWorkerPoolStream and uploadFiles / downloadFiles return, and
\* the caller goes on to the delete loop
RpTransfersReturn ==
    /\ rpPc[0] = "wait"
    /\ \A w \in RpWorkers : rpPc[w] = "exited"
    /\ rpPc' = [rpPc EXCEPT ![0] = "loop"]
    /\ UNCHANGED <<rpDir, rpPending, rpDelPending, rpEntry, rpSlice, rpMutex, rpLists,
                   rpAppends>>
    /\ UNCHANGED rpUnchanged

\* deleteLocalFiles / deleteS3Files: one iteration, up to its append
RpDelete ==
    /\ rpPc[0] = "loop"
    /\ \E f \in rpDelPending : \E ok \in BOOLEAN :
        /\ rpDelPending' = rpDelPending \ {f}
        /\ rpEntry' = [rpEntry EXCEPT ![0] = [list |-> DeleteList(ok), path |-> f]]
    /\ rpPc' = [rpPc EXCEPT ![0] = "read"]
    /\ UNCHANGED <<rpDir, rpPending, rpSlice, rpMutex, rpLists, rpAppends>>
    /\ UNCHANGED rpUnchanged

\* the delete loop is over: the sync call returns its SyncResult
RpReturn ==
    /\ rpPc[0] = "loop"
    /\ rpDelPending = {}
    /\ rpPc' = [rpPc EXCEPT ![0] = "done"]
    /\ UNCHANGED <<rpDir, rpPending, rpDelPending, rpEntry, rpSlice, rpMutex, rpLists,
                   rpAppends>>
    /\ UNCHANGED rpUnchanged

ReportNext ==
    \/ \E w \in RpWorkers : RpTake(w)
    \/ \E w \in RpWorkers : RpWorkerExit(w)
    \/ \E w \in RpWorkers : RpLock(w)
    \/ \E g \in Goroutines : RpRead(g)
    \/ \E g \in Goroutines : RpWrite(g)
    \/ \E w \in RpWorkers : RpUnlock(w)
    \/ RpTransfersReturn
    \/ RpDelete
    \/ RpReturn

SpecReport == ReportInit /\ [][ReportNext]_vars

\* the entries the four lists hold
RpRecorded == Len(rpLists["Uploaded"]) + Len(rpLists["Downloaded"])
                + Len(rpLists["Deleted"]) + Len(rpLists["Errors"])

MaxResets == 1

clUnchanged == <<poolVars, syncVars, dlVars, cryptoVars, upVars, retryVars, dcVars, rpVars>>

ClientInit ==
    /\ OthersIdle
    /\ RetryIdle
    /\ DirCopyIdle
    /\ ReportIdle
    /\ ClientIdle

HasInstance_Never(instance) == FALSE

\* if s3ClientInstance != nil
HasInstance(instance) == instance # 0

\* a goroutine calls getS3Client and waits at s3ClientMutex.Lock()
ClCall(c) ==
    /\ clPc[c] \in {"idle", "done"}
    /\ clPc' = [clPc EXCEPT ![c] = "lock"]
    /\ UNCHANGED <<clGot, clMutex, clInstance, clBuilt, clTotal, clResets>>
    /\ UNCHANGED clUnchanged

\* s3ClientMutex.Lock() returns
ClLock(c) ==
    /\ clPc[c] = "lock"
    /\ clMutex = -1
    /\ clMutex' = c
    /\ clPc' = [clPc EXCEPT ![c] = "check"]
    /\ UNCHANGED <<clGot, clInstance, clBuilt, clTotal, clResets>>
    /\ UNCHANGED clUnchanged

\* the body of getS3Client: return the instance, or create the configuration, and
\* either fail or construct the client and store it
ClBody(c) ==
    /\ clPc[c] = "check"
    /\ IF HasInstance(clInstance)
       THEN /\ clGot' = [clGot EXCEPT ![c] = clInstance]
            /\ UNCHANGED <<clInstance, clBuilt, clTotal>>
       ELSE \E configOk \in BOOLEAN :
              IF configOk
              THEN /\ clInstance' = clTotal + 1
                   /\ clTotal' = clTotal + 1
                   /\ clBuilt' = clBuilt + 1
                   /\ clGot' = [clGot EXCEPT ![c] = clTotal + 1]
              ELSE /\ clGot' = [clGot EXCEPT ![c] = -1]
                   /\ UNCHANGED <<clInstance, clBuilt, clTotal>>
    /\ clPc' = [clPc EXCEPT ![c] = "unlock"]
    /\ UNCHANGED <<clMutex, clResets>>
    /\ UNCHANGED clUnchanged

\* the deferred s3ClientMutex.Unlock(); the call returns
ClUnlock(c) ==
    /\ clPc[c] = "unlock"
    /\ clMutex' = -1
    /\ clPc' = [clPc EXCEPT ![c] = "done"]
    /\ UNCHANGED <<clGot, clInstance, clBuilt, clTotal, clResets>>
    /\ UNCHANGED clUnchanged

\* resetS3Client: under the mutex, s3ClientInstance = nil; the histories start afresh
ResetS3Client ==
    /\ clResets < MaxResets
    /\ clMutex = -1
    /\ clInstance' = 0
    /\ clBuilt' = 0
    /\ clGot' = [c \in ClCallers |-> 0]
    /\ clResets' = clResets + 1
    /\ UNCHANGED <<clPc, clMutex, clTotal>>
    /\ UNCHANGED clUnchanged

ClientNext ==
    \/ \E c \in ClCallers : ClCall(c)
    \/ \E c \in ClCallers : ClLock(c)
    \/ \E c \in ClCallers : ClBody(c)
    \/ \E c \in ClCallers : ClUnlock(c)
    \/ ResetS3Client

SpecClient == ClientInit /\ [][ClientNext]_vars

\* C36: between two resets at most one client is constructed, and every call that
\* succeeded returned that one client, however the calls interleave.
C36_SingleClient ==
    /\ clBuilt <= 1
    /\ \A c \in ClCallers : clGot[c] > 0 => (clBuilt = 1 /\ clGot[c] = clInstance)
    /\ \A c, d \in ClCallers : (clGot[c] > 0 /\ clGot[d] > 0) => clGot[c] = clGot[d]

\* after a reset, three callers overlapped: one failed to load the configuration,
\* the next constructed the client, the third was handed the same client
C36_Witness ==
    /\ clResets = 1
    /\ clBuilt = 1
    /\ clInstance = 2
    /\ \E c, d, e \in ClCallers :
          /\ clPc[c] = "done" /\ clGot[c] = -1
          /\ clPc[d] = "done" /\ clGot[d] = 2
          /\ clPc[e] = "done" /\ clGot[e] = 2

\* ------------------------------------------------------------------------
\* Properties of the single download
\* ------------------------------------------------------------------------
\* C4: whenever a download into an already existing local path returns an error, the
\* file that was at that path before the call still exists with unchanged content.
C4_FailedDownloadKeepsFile ==
    (dpc = "done" /\ dlErr # "nil" /\ dlOrig # NoFile) => localFS[DlPath] = dlOrig

\* ------------------------------------------------------------------------
\* Properties of sync
\* ------------------------------------------------------------------------
\* the non-ignored relative paths each side holds
LocalPaths == {p \in Paths : p \notin ignored /\ localFS[p] # NoFile}
RemotePaths == {p \in Paths : p \notin ignored /\ remoteFS[p] # NoObject}
SourcePaths == IF direction = "up" THEN LocalPaths ELSE RemotePaths
DestPaths == IF direction = "up" THEN RemotePaths ELSE LocalPaths

C2_DiffClassification ==
    spc = "planned" =>
        \A p \in Paths :
            /\ p \in toTransfer <=>
                  (p \in SourcePaths /\ (p \notin DestPaths \/ verdict[p] = "DIFFERENT"))
            /\ p \in toDelete <=> (p \in DestPaths /\ p \notin SourcePaths)
            /\ (p \in SourcePaths /\ p \in DestPaths)
                  <=> verdict[p] \in {"SAME", "DIFFERENT"}
            /\ verdict[p] = "SAME" => (p \notin toTransfer /\ p \notin toDelete)

\* source {1:h1, 2:h2}, destination {2:h2, 3:h1}: transfer {1}, delete {3}, one unchanged
C2_Witness ==
    /\ spc = "planned"
    /\ direction = "up"
    /\ syncCompare = "checksum"
    /\ ignored = {}
    /\ localFS[1].hash = "h1" /\ localFS[2].hash = "h2" /\ localFS[3] = NoFile
    /\ remoteFS[1] = NoObject
    /\ remoteFS[2] = SinglePartObject("h2")
    /\ remoteFS[3] = SinglePartObject("h1")
    /\ toTransfer = {1}
    /\ toDelete = {3}
    /\ Cardinality({p \in Paths : verdict[p] = "SAME"}) = 1
    /\ verdict[2] = "SAME"

\* the pair of files compared, and what the listings say of their sizes
CmpSameSize ==
    DataSize(localFS[CmpPath].hash, localFS[CmpPath].layers)
        = DataSize(remoteFS[CmpPath].hash, remoteFS[CmpPath].layers)
CmpLocalMD5 == MD5Of(localFS[CmpPath].hash, localFS[CmpPath].layers)

\* C29: under the checksum strategy a path on both sides is SAME exactly when the
\* sizes are equal and the local digest equals the ETag or the local-md5 metadata a
\* successful HeadObject returned; in every other case it is DIFFERENT, in particular
\* for equal sizes, no usable local-md5 metadata and an ETag that is not the digest.
C29_ChecksumClassification ==
    (spc = "planned" /\ syncCompare = "checksum" /\ verdict[CmpPath] # "none") =>
        /\ verdict[CmpPath] = "SAME" <=>
                /\ CmpSameSize
                /\ \/ CmpLocalMD5 = ETagOf(remoteFS[CmpPath])
                   \/ (~silentFault /\ remoteFS[CmpPath].md5meta = CmpLocalMD5)
        /\ verdict[CmpPath] \in {"SAME", "DIFFERENT"}

\* same content and size, a multipart ETag and no local-md5 metadata: DIFFERENT
C29_Witness ==
    /\ spc = "planned"
    /\ syncCompare = "checksum"
    /\ remoteFS[CmpPath].hash = localFS[CmpPath].hash
    /\ CmpSameSize
    /\ ~remoteFS[CmpPath].etagOK
    /\ remoteFS[CmpPath].md5meta = NoMD5
    /\ ~silentFault
    /\ verdict[CmpPath] = "DIFFERENT"

\* C30: under the size-time strategy a path on both sides is SAME exactly when the
\* sizes are equal and either the two modification times differ by at most 1 second
\* or the local-mtime metadata a successful HeadObject returned is the local
\* modification time; missing or unparsable metadata gives DIFFERENT.
C30_SizeTimeClassification ==
    (spc = "planned" /\ syncCompare = "size-time" /\ verdict[CmpPath] # "none") =>
        /\ verdict[CmpPath] = "SAME" <=>
                /\ CmpSameSize
                /\ \/ localFS[CmpPath].mtime - remoteFS[CmpPath].lastMod \in -1..1
                   \/ (~silentFault /\ remoteFS[CmpPath].mtimeMeta = localFS[CmpPath].mtime)
        /\ verdict[CmpPath] \in {"SAME", "DIFFERENT"}
        /\ (remoteFS[CmpPath].mtimeMeta \in {0, Unparsable}
                /\ localFS[CmpPath].mtime - remoteFS[CmpPath].lastMod \notin -1..1)
              => verdict[CmpPath] = "DIFFERENT"

\* the times are 2 seconds apart and the local-mtime metadata decides: SAME
C30_Witness ==
    /\ spc = "planned"
    /\ syncCompare = "size-time"
    /\ CmpSameSize
    /\ remoteFS[CmpPath].lastMod - localFS[CmpPath].mtime = 2
    /\ remoteFS[CmpPath].mtimeMeta = localFS[CmpPath].mtime
    /\ ~silentFault
    /\ verdict[CmpPath] = "SAME"

\* C3: under dry-run no step of a sync call changes either tree or performs any
\* mutating file-system or object-store operation, in both directions.
C3_DryRunMutatesNothing ==
    [][dryRun => /\ localFS' = localFS
                 /\ remoteFS' = remoteFS
                 /\ mutations' = {}]_vars

\* a dry-run sync that reported a transfer and a deletion has returned
C3_Witness ==
    /\ dryRun
    /\ spc = "done"
    /\ syncErr = NilErr
    /\ \E p \in Paths : uploaded[p] + downloaded[p] >= 1
    /\ \E p \in Paths : deleted[p] >= 1
    /\ mutations = {}

\* C5: a second sync call with the same settings, following one that completed with
\* no error while neither side changed in between, reports nothing uploaded, nothing
\* downloaded, nothing deleted and no errors.
C5_SecondSyncReportsNothing ==
    (/\ syncRun = 2
     /\ spc = "done"
     /\ ~dryRun
     /\ ~silentFault
     /\ callerCtx = "nil"
     /\ syncErr = NilErr)
        => /\ BagIsEmpty(uploaded)
           /\ BagIsEmpty(downloaded)
           /\ BagIsEmpty(deleted)
           /\ BagIsEmpty(errors)

\* how often a path was attempted as a transfer, as a delete
TransferAttempts(p) == uploaded[p] + downloaded[p] + errors[p]
DeleteAttempts(p) == deleted[p] + errors[p]

\* C16: in a live sync that is not cancelled, a failed transfer or delete adds an
\* entry to the error list and stops nothing: when the call returns, every path of
\* toTransfer and of toDelete was attempted exactly once and is in exactly one of the
\* success lists or the error list, no other path is in any list, and the call
\* returned no error.
C16_FailuresAreIsolated ==
    (/\ spc = "done"
     /\ ~dryRun
     /\ callerCtx = "nil"
     /\ maxWorkers >= 1
     /\ syncErr # ListErr)
        => /\ syncErr = NilErr
           /\ \A p \in toTransfer :
                 TransferAttempts(p) = 1 /\ deleted[p] = 0
           /\ \A p \in toDelete :
                 DeleteAttempts(p) = 1 /\ uploaded[p] = 0 /\ downloaded[p] = 0
           /\ \A p \in Paths \ (toTransfer \cup toDelete) :
                 TransferAttempts(p) = 0 /\ deleted[p] = 0

\* a transfer failed and the delete that came after it was still performed
C16_Witness ==
    /\ spc = "done"
    /\ ~dryRun
    /\ callerCtx = "nil"
    /\ maxWorkers >= 1
    /\ syncErr = NilErr
    /\ \E p \in toTransfer : errors[p] = 1 /\ uploaded[p] + downloaded[p] = 0
    /\ \E p \in toDelete : deleted[p] = 1 /\ errors[p] = 0

\* C17: the delete tasks of toDelete are dispatched together with the transfer tasks
\* and run concurrently with and independently of them: while transfers are in
\* progress every path of toDelete is dispatched or already attempted, and when the
\* call returns every path of toDelete was attempted, whatever the transfers did.
C17_DeletesRunWithTransfers ==
    /\ spc = "transfer" =>
          \A p \in toDelete : p \in pendingDel \/ DeleteAttempts(p) >= 1
    /\ (spc = "done" /\ maxWorkers >= 1) =>
          \A p \in toDelete : DeleteAttempts(p) >= 1

C18_SourceNeverModified ==
    [][/\ direction = "up" =>
            /\ localFS' = localFS
            /\ mutations' \subseteq {"PutObject", "DeleteObject"}
       /\ direction = "down" =>
            /\ remoteFS' = remoteFS
            /\ mutations' \cap {"PutObject", "DeleteObject"} = {}]_vars

\* a sync that transferred, hit a failure and was then cancelled by the caller
C18_Witness ==
    /\ spc = "done"
    /\ ~dryRun
    /\ callerCtx = "Canceled"
    /\ syncErr = CanceledErr
    /\ mutations # {}
    /\ \E p \in Paths : uploaded[p] + downloaded[p] >= 1
    /\ \E p \in Paths : errors[p] >= 1

\* ------------------------------------------------------------------------
\* Properties of the worker pool
\* ------------------------------------------------------------------------
GenuineTaskFailure == \E i \in 1..Len(failOrder) : failOrder[i].kind = "task"

\* C6: with maxWorkers >= 1, no failing task or producer and a caller context that is
\* never cancelled, the executor returns nil after calling the worker exactly once for
\* each task; no task is ever handed to the worker twice.
C6_EveryTaskOnce ==
    /\ \A t \in TaskIds : runs[t] <= 1
    /\ (mpc = "done" /\ maxWorkers >= 1 /\ callerCtx = "nil" /\ failOrder = <<>>)
          => /\ \A t \in TaskIds : runs[t] = (IF t <= ntasks THEN 1 ELSE 0)
             /\ result = NilErr

C6_Witness ==
    /\ mpc = "done"
    /\ mode = "stream"
    /\ ntasks >= 3
    /\ maxWorkers >= 2
    /\ callerCtx = "nil"
    /\ failOrder = <<>>
    /\ \A t \in 1..ntasks : runs[t] = 1
    /\ result = NilErr

\* C7: when a task failed with an error of its own and the caller's context is not
\* cancelled, the executor returns the first error that was offered to errChan: never
\* nil, never a cancellation; in fixed-list mode it is the error of a task that ran,
\* in streamed mode it is that or the producer's own error if that came first; with a
\* single failure it is that failure.
C7_FirstErrorWins ==
    (mpc = "done" /\ callerCtx = "nil" /\ GenuineTaskFailure)
      => /\ result = failOrder[1]
         /\ result # NilErr
         /\ ~IsCanceled(result)
         /\ result.kind \in {"task", "producer"}
         /\ (mode = "fixed" => result.kind = "task")
         /\ (result.kind = "task" => runs[result.id] = 1)

C7_Witness ==
    /\ mpc = "done"
    /\ mode = "fixed"
    /\ callerCtx = "nil"
    /\ Len(failOrder) = 2
    /\ failOrder[1] = TaskErr(2)
    /\ failOrder[2] = TaskErr(1)
    /\ result = TaskErr(2)

\* C8 (as claimed): once cancel() was called after a first failure, no worker begins a
\* task and the send loop / producer enqueues no task.
C8_NothingStartsAfterCancel == lateStart = {} /\ lateSent = {}

\* C9: when the executor returns, every worker goroutine has left its loop and the send
\* loop / producer has returned, so no worker call is executing; a worker call that was
\* executing when workerCtx became done has returned by itself.
C9_ReturnsAfterAllCalls ==
    mpc = "done"
      => /\ \A w \in WorkerIds : wpc[w] \in {"none", "exited"} /\ wtask[w] = 0
         /\ ppc \in {"idle", "done"}
         /\ (ppc = "idle" => \A w \in WorkerIds : wpc[w] = "none")

C9_Witness ==
    /\ mpc = "done"
    /\ cancelCause = "failure"
    /\ Cardinality(inflight) >= 1
    /\ \A t \in inflight : runs[t] = 1

\* C10 (as claimed): with maxWorkers >= 1, a run that begins with the caller's context
\* already cancelled or expired returns that context's error and starts no worker, for
\* every task list, the empty one included.
C10_CancelledBeforeStart ==
    [][(mpc = "start" /\ callerCtx # "nil" /\ maxWorkers >= 1 /\ mpc' # "start")
         => /\ mpc' = "done"
            /\ result' = CtxErr(callerCtx)
            /\ \A w \in WorkerIds : wpc'[w] = "none"]_vars

\* a task or the producer reported an error that is no context error
GenuineFailure ==
    \E i \in 1..Len(failOrder) : failOrder[i].kind \in {"task", "producer"}

C12_CapturedErrorNotMasked ==
    (/\ mpc = "done"
     /\ callerCtx # "nil"
     /\ failOrder # <<>>
     /\ Head(failOrder).kind \in {"task", "producer"})
        => /\ result = Head(failOrder)
           /\ result # CtxErr(callerCtx)

\* a task failed, cancel() ran, then the caller's deadline passed before the return
C12_Witness ==
    /\ mpc = "done"
    /\ cancelCause = "failure"
    /\ callerCtx = "DeadlineExceeded"
    /\ failOrder # <<>>
    /\ Head(failOrder).kind = "task"
    /\ result = Head(failOrder)

\* C13: with maxWorkers < 1 both modes return the configuration error at once and
\* start nothing, for every task list, the empty one included.
C13_ConfigErrorAlways ==
    [][(mpc = "start" /\ maxWorkers < 1 /\ mpc' # "start")
         => /\ mpc' = "done"
            /\ result' = ConfigErr
            /\ \A w \in WorkerIds : wpc'[w] = "none"]_vars

\* the worker goroutines that were started, and those inside a worker call
StartedWorkers == {w \in WorkerIds : wpc[w] # "none"}
RunningWorkers == {w \in WorkerIds : wpc[w] = "running"}

\* C14: never more than min(maxWorkers, taskCount) worker calls execute at once in
\* fixed-list mode, nor more than maxWorkers in streamed mode; a run that starts its
\* goroutines starts exactly that many, whatever number of tasks a producer yields.
C14_WorkerCount ==
    LET limit == IF mode = "fixed" THEN Min(maxWorkers, ntasks) ELSE maxWorkers
    IN /\ Cardinality(RunningWorkers) <= limit
       /\ ppc # "idle" => Cardinality(StartedWorkers) = limit
       /\ ppc = "idle" => StartedWorkers = {}

\* a streamed run with two workers whose producer yields a single task
C14_Witness ==
    /\ mode = "stream"
    /\ maxWorkers = 2
    /\ ntasks = 1
    /\ Cardinality(StartedWorkers) = 2
    /\ Cardinality(RunningWorkers) = 1

\* C15: in streamed mode a producer error that is no cancellation, captured before
\* any worker failed, is exactly what the executor returns; the shared cancellation
\* is triggered and every worker goroutine has left its loop by then.
C15_ProducerErrorReturned ==
    (mpc = "done" /\ failOrder # <<>> /\ Head(failOrder) = ProducerErr)
        => /\ mode = "stream"
           /\ result = ProducerErr
           /\ cancelCause # "none"
           /\ (callerCtx = "nil" => cancelCause = "failure")
           /\ \A w \in StartedWorkers : wpc[w] = "exited"

\* the producer failed after queueing tasks; the workers left and one task never ran
C15_Witness ==
    /\ mpc = "done"
    /\ mode = "stream"
    /\ callerCtx = "nil"
    /\ failOrder = <<ProducerErr>>
    /\ result = ProducerErr
    /\ cancelCause = "failure"
    /\ sent >= 2
    /\ \E t \in TaskIds : t <= sent /\ runs[t] = 0

\* tasks the producer has enqueued and no worker has taken
QueuedNotTaken == {t \in 1..sent : runs[t] = 0}

\* C39: in streamed mode the tasks enqueued and not yet taken by a worker are the
\* tasks in the queue, and they never number more than 2 * maxWorkers, however many
\* tasks the producer has still to yield.
C39_PendingTasksBounded ==
    mode = "stream" =>
        /\ Cardinality(QueuedNotTaken) = Len(taskChan)
        /\ Cardinality(QueuedNotTaken) <= 2 * maxWorkers

\* the producer waits at a full queue: two tasks queued for the one worker, a third
\* still to send, nothing cancelled
C39_Witness ==
    /\ mode = "stream"
    /\ maxWorkers = 1
    /\ mpc = "wait"
    /\ ppc = "send"
    /\ cancelCause = "none"
    /\ Cardinality(QueuedNotTaken) = 2
    /\ sent < ntasks
    /\ ~ENABLED ProducerSend

\* every step of the executor's own goroutines: the caller of the executor, the
\* worker goroutines and the send loop / producer; CallerCancel is the environment's
PoolProgress ==
    \/ Start
    \/ \E w \in WorkerIds : WorkerDone(w)
    \/ \E w \in WorkerIds : WorkerTake(w)
    \/ \E w \in WorkerIds : WorkerClosed(w)
    \/ \E w \in WorkerIds : WorkerReturnOk(w)
    \/ \E w \in WorkerIds : WorkerReturnErr(w)
    \/ \E w \in WorkerIds : WorkerCancel(w)
    \/ SendTask
    \/ SendBreak
    \/ SendFinish
    \/ ProducerSend
    \/ ProducerSeesDone
    \/ ProducerFail
    \/ ProducerReturn
    \/ ProducerCancel
    \/ Finish

Init == PoolInit /\ SyncIdle /\ DownloadIdle /\ CryptoIdle /\ UploadIdle /\ AuxIdle

Next == PoolNext

Spec == Init /\ [][Next]_vars

\* enough tasks for a single worker to leave a full queue behind and the sender
\* waiting: DefaultWorkerPoolBufferMultiplier queued, one taken, one still to send
LiveTasks == 4

\* an executor call as in PoolInit, with up to LiveTasks tasks
LiveInit ==
    /\ mode \in {"fixed", "stream"}
    /\ ntasks \in 0..LiveTasks
    /\ maxWorkers \in 0..MaxWorkers
    /\ callerCtx \in {"nil", "Canceled", "DeadlineExceeded"}
    /\ cancelCause = "none"
    /\ taskChan = <<>>
    /\ chanClosed = FALSE
    /\ errChan = <<>>
    /\ wpc = [w \in WorkerIds |-> "none"]
    /\ wtask = [w \in WorkerIds |-> 0]
    /\ sent = 0
    /\ ppc = "idle"
    /\ mpc = "start"
    /\ result = NilErr
    /\ runs = [t \in 1..LiveTasks |-> 0]
    /\ failOrder = <<>>
    /\ lateStart = {}
    /\ lateSent = {}
    /\ inflight = {}
    /\ SyncIdle /\ DownloadIdle /\ CryptoIdle /\ UploadIdle /\ AuxIdle

\* the executor under the Go scheduler: a goroutine that can take a step is not
\* suspended forever, every worker call returns, and the producer returns once its
\* context is cancelled; the caller may cancel or not
SpecLive == LiveInit /\ [][Next]_vars /\ WF_vars(PoolProgress)

\* C37: every call of runWorkerPool and runWorkerPoolStream returns, whatever the
\* interleaving, the task failures and the moment of the caller's cancellation.
C37_ExecutorTerminates == <>(mpc = "done")

\* a call returned although its only worker had failed and exited while the queue
\* was full and the sender still had a task to send
C37_Witness ==
    /\ mpc = "done"
    /\ maxWorkers = 1
    /\ callerCtx = "nil"
    /\ Len(taskChan) = BufferSize
    /\ sent < ntasks
    /\ failOrder # <<>>
    /\ wpc[1] = "exited"

====
